---- MODULE Spec2Model ----
(***************************************************************************)
(* Model of packages/workspaces-util: the dependency graph builder and the *)
(* cycle-safe traversals getDependencies / getDependents                   *)
(* (src/packages/workspaces-util/src/dependencies.ts).                     *)
(*                                                                         *)
(* Optional values of the source (a missing option, an absent dependency   *)
(* map, null) are written as sequences of length 0 or 1: <<>> is           *)
(* undefined/null and <<x>> is the value x.  Strings that the code         *)
(* inspects character by character (version specifiers) are sequences of   *)
(* one-character strings.  A GraphNode reference is the key of the node in *)
(* the heap `graph` (the module name, unique within a workspace).          *)
(***************************************************************************)
EXTENDS Integers, Sequences, FiniteSets, Bags, TLC

VARIABLES
    workspace,  \* the Workspace handed to every call: [root, modules]
    call,       \* the last call: [fn, options]
    result,     \* what the last call returned or threw
    graph,      \* the GraphNode objects created by the last call
    first,      \* observer: the first recorded call of a behaviour and its result
    patternText,\* the pattern handed to parseGlob / resolveGlob, a string
    parsed,     \* parseGlob(patternText), once it was called: [error, glob]
    matchParts, \* the parts of a wildcard segment handed to matchesPattern
    matchInput, \* the entry name handed to matchesPattern
    matched,    \* matchesPattern(matchParts, matchInput), once it was called
    matchStack, \* matchesPattern: the stack of candidate states, while it runs
    globOptions,\* the GlobOptions of the resolveGlob call: [maxConcurrency]
    tree,       \* the file system: path -> "file" | "directory"
    faults,     \* the paths at or below which operations fail: path -> code
    glob,       \* resolveGlob: the parsed segments
    stack,      \* resolveGlob: the frames waiting, [index, path]
    concurrency,\* resolveGlob: the counter of operations in flight
    results,    \* resolveGlob: the paths matched so far
    inflight,   \* the operations launched and not completed, a bag of frames
    promise,    \* the promise resolveGlob returned: [state, value, reason]
    trace,      \* observer: what the resolveGlob call did so far
    disk,       \* the package.json files: [manifests, notDirectory]
    discoverOptions, \* discoverWorkspace: its options [cwd, maxDepth]
    discovery,  \* discoverWorkspace: its locals, its outcome, what it loaded
    build,      \* build(): its locals, the tasks and watchers it started, its outcome
    heap,       \* the entity objects and the Set objects they refer to
    invocation  \* the last method called on an entity: [count, method, receiver, ...]

graphVars == <<workspace, call, result, graph, first>>

textVars == <<patternText, parsed, matchParts, matchInput, matched, matchStack>>

globVars ==
    <<globOptions, tree, faults, glob, stack, concurrency, results, inflight,
      promise, trace>>

discoverVars == <<disk, discoverOptions, discovery>>

rollupVars == <<build, heap, invocation>>

vars == <<graphVars, textVars, globVars, discoverVars, rollupVars>>

(***************************************************************************)
(* Bounds                                                                  *)
(***************************************************************************)
\* at most this many workspace-linked dependency entries in a workspace (Spec, SpecPure)
MaxDeps == 4
\* at most this many declared (dependent, dependency) pairs in a workspace (SpecGraph)
MaxEntries == 1

\* the longest pattern handed to parseGlob
MaxPatternLen == 3

\* the longest entry name of plain letters handed to matchesPattern
MaxNameLen == 3

\* the most entries a file tree holds below the working directory
MaxFiles == 3

\* build: at most this many tasks are queued by one build config
MaxTasks == 2

\* build: at most this many events are emitted by the watchers
MaxEvents == 3

\* entities: at most this many method calls are made
MaxCalls == 3

\* names of the member modules, in the order of workspace.modules
MemberNames == <<"A", "B", "C">>
Members == { MemberNames[i] : i \in DOMAIN MemberNames }
\* the name of the workspace root
RootName == "root"
\* a name that no module of the workspace has
MissingName == "missing"

None == <<>>
Some(x) == <<x>>

Range(s) == { s[i] : i \in DOMAIN s }

(***************************************************************************)
(* Version specifiers                                                      *)
(***************************************************************************)
WORKSPACE_PREFIX == <<"w", "o", "r", "k", "s", "p", "a", "c", "e", ":">>
SpecWsAny == WORKSPACE_PREFIX \o <<"*">>
SpecNoColon == <<"w", "o", "r", "k", "s", "p", "a", "c", "e">>

\* String.prototype.startsWith
startsWith(s, prefix) ==
    /\ Len(s) >= Len(prefix)
    /\ SubSeq(s, 1, Len(prefix)) = prefix

(***************************************************************************)
(* Workspaces                                                              *)
(***************************************************************************)
\* mutant of DEFAULT_DEPENDENCY_MAPS: all four maps
DEFAULT_DEPENDENCY_MAPS_all ==
    <<"dependencies", "devDependencies", "peerDependencies", "optionalDependencies">>

\* lines 53-57
DEFAULT_DEPENDENCY_MAPS == <<"dependencies", "devDependencies", "peerDependencies">>

\* a manifest entry: module `from` lists `to` with specifier `spec` in its map `key`
Entry(from, key, to, spec) == [from |-> from, key |-> key, to |-> to, spec |-> spec]

\* the dependency map `key` of module `name`: absent when the manifest has no entry in it
DependencyMap(entries, name, key) ==
    LET mine == { e \in entries : e.from = name /\ e.key = key }
    IN  IF mine = {}
        THEN None
        ELSE Some([ to \in { e.to : e \in mine } |->
                      (CHOOSE e \in mine : e.to = to).spec ])

\* a module and its manifest (PackageDeclaration)
Module(entries, name) ==
    [ baseDir |-> name,
      declaration |->
        [ name |-> name,
          dependencies |-> DependencyMap(entries, name, "dependencies"),
          devDependencies |-> DependencyMap(entries, name, "devDependencies"),
          peerDependencies |-> DependencyMap(entries, name, "peerDependencies"),
          optionalDependencies |-> DependencyMap(entries, name, "optionalDependencies") ] ]

Workspace(entries) ==
    [ root |-> Module({}, RootName),
      modules |-> [ i \in DOMAIN MemberNames |-> Module(entries, MemberNames[i]) ] ]

(***************************************************************************)
(* buildGraph                                                              *)
(***************************************************************************)
NewNode(name) ==
    [ module |-> name,
      dependencies |-> <<>>,
      dependents |-> <<>>,
      visited |-> FALSE,
      visiting |-> FALSE ]

\* lines 66-76: one node per module of the workspace
createNodes(modules) ==
    [ name \in { modules[i].declaration.name : i \in DOMAIN modules } |-> NewNode(name) ]

\* lines 78: options?.dependencyMaps ?? DEFAULT_DEPENDENCY_MAPS
mapKeysOf(options) ==
    IF options.dependencyMaps = None
    THEN DEFAULT_DEPENDENCY_MAPS
    ELSE options.dependencyMaps[1]

\* lines 80-83: the names of options.exclude
excludedOf(options) ==
    IF options.exclude = None THEN {} ELSE Range(options.exclude[1])

\* mutant of isWorkspaceLink: the prefix is compared without its colon
isWorkspaceLink_noColon(dependencyMap, name) ==
    /\ name \in DOMAIN dependencyMap
    /\ startsWith(dependencyMap[name], SpecNoColon)

\* line 106: dependencyMap[name]?.startsWith("workspace:") === true
isWorkspaceLink(dependencyMap, name) ==
    /\ name \in DOMAIN dependencyMap
    /\ startsWith(dependencyMap[name], WORKSPACE_PREFIX)

\* mutant of skipDownstream: an excluded downstream module is still linked
skipDownstream_linkOnly(excluded, dependencyMap, name) ==
    ~isWorkspaceLink(dependencyMap, name)

\* lines 105-107: the inner loop skips an excluded or unlinked downstream module
skipDownstream(excluded, dependencyMap, name) ==
    \/ name \in excluded
    \/ ~isWorkspaceLink(dependencyMap, name)

\* lines 111-112: both relation lists receive the edge
addEdge(g, upstream, downstream) ==
    IF upstream = downstream
    THEN [ g EXCEPT ![upstream].dependencies = Append(@, downstream),
                    ![upstream].dependents = Append(@, upstream) ]
    ELSE [ g EXCEPT ![upstream].dependencies = Append(@, downstream),
                    ![downstream].dependents = Append(@, upstream) ]

\* lines 103-113: the inner loop over the modules, from moduleSubIndex on
RECURSIVE linkDownstream(_, _, _, _, _, _)
linkDownstream(g, modules, excluded, upstream, dependencyMap, moduleSubIndex) ==
    IF moduleSubIndex > Len(modules)
    THEN g
    ELSE LET downstream == modules[moduleSubIndex].declaration.name
         IN  linkDownstream(
                 IF skipDownstream(excluded, dependencyMap, downstream)
                 THEN g
                 ELSE addEdge(g, upstream, downstream),
                 modules, excluded, upstream, dependencyMap, moduleSubIndex + 1)

\* lines 98-114: the loop over the selected maps of one module, from mapIndex on
RECURSIVE linkMaps(_, _, _, _, _, _)
linkMaps(g, modules, mapKeys, excluded, module, mapIndex) ==
    IF mapIndex > Len(mapKeys)
    THEN g
    ELSE LET dependencyMap == module.declaration[mapKeys[mapIndex]]
         IN  linkMaps(
                 IF dependencyMap = None
                 THEN g
                 ELSE linkDownstream(g, modules, excluded, module.declaration.name,
                                     dependencyMap[1], 1),
                 modules, mapKeys, excluded, module, mapIndex + 1)

\* lines 91-115: the outer loop over the modules, from moduleIndex on
RECURSIVE linkModules(_, _, _, _, _)
linkModules(g, modules, mapKeys, excluded, moduleIndex) ==
    IF moduleIndex > Len(modules)
    THEN g
    ELSE LET module == modules[moduleIndex]
         IN  linkModules(
                 IF module.declaration.name \in excluded   \* line 93
                 THEN g
                 ELSE linkMaps(g, modules, mapKeys, excluded, module, 1),
                 modules, mapKeys, excluded, moduleIndex + 1)

\* mutant of buildGraph: the nodes of the previous call are used again
buildGraph_cached(ws, options) ==
    IF DOMAIN graph = {}
    THEN linkModules(createNodes(ws.modules), ws.modules,
                     mapKeysOf(options), excludedOf(options), 1)
    ELSE graph

\* lines 61-118
buildGraph(ws, options) ==
    linkModules(createNodes(ws.modules), ws.modules,
                mapKeysOf(options), excludedOf(options), 1)

(***************************************************************************)
(* createTraversal                                                         *)
(***************************************************************************)
\* buildOrder[direction](node), lines 164-166
\* mutant of record: the node is always appended
record_append(buildOrder, direction, node) ==
    Append(buildOrder, node)

record(buildOrder, direction, node) ==
    IF direction = "push"
    THEN Append(buildOrder, node)
    ELSE <<node>> \o buildOrder

\* mutant of isRecorded: the origin is recorded whatever includeSelf says
isRecorded_always(node, origin, options) ==
    TRUE

\* line 164: node !== origin || options.includeSelf !== false
isRecorded(node, origin, options) ==
    node # origin \/ options.includeSelf # Some(FALSE)

\* mutant of finish: the node is recorded but never marked visited
finish_unmarked(t, node, origin, direction, options) ==
    [ t EXCEPT !.graph[node].visiting = FALSE,
               !.buildOrder = IF isRecorded(node, origin, options)
                              THEN record(@, direction, node)
                              ELSE @ ]

\* lines 161-168: the node is fully visited
finish(t, node, origin, direction, options) ==
    [ t EXCEPT !.graph[node].visiting = FALSE,
               !.graph[node].visited = TRUE,
               !.buildOrder = IF isRecorded(node, origin, options)
                              THEN record(@, direction, node)
                              ELSE @ ]

\* mutant of unwind: the cycle start is never recognised, nothing is thrown
unwind_silent(t, node) ==
    [ t EXCEPT !.cycleInfo = Append(@, node) ]

\* mutant of unwind: the name is appended before the cycle start is recognised
unwind_appendFirst(t, node) ==
    [ t EXCEPT !.cycleInfo = Append(@, node),
               !.thrown = (t.cycleStart = Some(node)) ]

\* lines 152-157: a visit below `node` returned false
unwind(t, node) ==
    IF t.cycleStart = Some(node)
    THEN [ t EXCEPT !.thrown = TRUE ]
    ELSE [ t EXCEPT !.cycleInfo = Append(@, node) ]

\* visit (lines 135-169) returns [t, ok]: the traversal's state after the call and
\* its return value; t.thrown is set when the call ended with the cycle error.
\* visitBranch is the loop of lines 149-159 from `index` on.
RECURSIVE visit(_, _, _, _, _, _)
RECURSIVE visitBranch(_, _, _, _, _, _, _)
visit(t, node, origin, branchKey, direction, options) ==
    IF t.graph[node].visited
    THEN [ t |-> t, ok |-> TRUE ]
    ELSE IF t.graph[node].visiting
    THEN \* lines 140-143: a node that is still being visited was reached again
         [ t |-> [ t EXCEPT !.cycleStart = Some(node), !.cycleInfo = <<node>> ],
           ok |-> FALSE ]
    ELSE visitBranch([ t EXCEPT !.graph[node].visiting = TRUE ],
                     node, 1, origin, branchKey, direction, options)

visitBranch(t, node, index, origin, branchKey, direction, options) ==
    LET branch == t.graph[node][branchKey]
    IN  IF index > Len(branch)
        THEN [ t |-> finish(t, node, origin, direction, options), ok |-> TRUE ]
        ELSE LET r == visit(t, branch[index], origin, branchKey, direction, options)
             IN  IF r.t.thrown THEN r
                 ELSE IF ~r.ok THEN [ t |-> unwind(r.t, node), ok |-> FALSE ]
                 ELSE visitBranch(r.t, node, index + 1,
                                  origin, branchKey, direction, options)

\* lines 174-183: the relation lists of the nodes of buildOrder keep only those nodes
filterScope(g, buildOrder) ==
    LET affected == Range(buildOrder)
        isAffected(node) == node \in affected
    IN  [ name \in DOMAIN g |->
            IF name \in affected
            THEN [ g[name] EXCEPT !.dependencies = SelectSeq(@, isAffected),
                                  !.dependents = SelectSeq(@, isAffected) ]
            ELSE g[name] ]

\* what a call leaves behind: the value it returned or the error it threw, and
\* the nodes it created
Returned(buildOrder, root, g) ==
    [ result |-> [ status |-> "returned", buildOrder |-> buildOrder,
                   root |-> Some(root), cycleStart |-> None, cycleInfo |-> <<>> ],
      graph |-> g ]

\* cycleInfo is the chain of names that the message joins with " -> "
Threw(error, cycleStart, cycleInfo, g) ==
    [ result |-> [ status |-> error, buildOrder |-> <<>>,
                   root |-> None, cycleStart |-> cycleStart, cycleInfo |-> cycleInfo ],
      graph |-> g ]

\* the traversal of lines 131-188 over the nodes g, from the node `origin`
traverse(g, origin, branchKey, direction, options) ==
    LET \* the locals of one traversal call (lines 131-133) and the nodes it marks
        NewTraversal == [ graph |-> g,
                          buildOrder |-> <<>>,
                          cycleStart |-> None,
                          cycleInfo |-> <<>>,
                          thrown |-> FALSE ]
        r == visit(NewTraversal, origin, origin, branchKey, direction, options)
    IN  IF r.t.thrown
        THEN Threw("cycle", r.t.cycleStart, r.t.cycleInfo, r.t.graph)
        ELSE Returned(r.t.buildOrder, origin,
                      filterScope(r.t.graph, r.t.buildOrder))

\* lines 124-189
createTraversal(branchKey, direction, ws, options) ==
    LET g == buildGraph(ws, options)
    IN  IF options.moduleName \notin DOMAIN g
        THEN Threw("no module", None, <<>>, g)
        ELSE traverse(g, options.moduleName, branchKey, direction, options)

\* line 39
getDependencies(ws, options) == createTraversal("dependencies", "push", ws, options)

\* mutant of getDependents: the order is built with push
getDependents_push(ws, options) == createTraversal("dependents", "push", ws, options)

\* line 45
getDependents(ws, options) == createTraversal("dependents", "unshift", ws, options)

(***************************************************************************)
(* Calls                                                                   *)
(***************************************************************************)
\* no pattern is parsed or matched and no glob is resolved while the graph
\* functions are called
NoText ==
    /\ patternText = <<>>
    /\ parsed = None
    /\ matchParts = <<>>
    /\ matchInput = <<>>
    /\ matched = None
    /\ matchStack = <<>>

NoGlob ==
    /\ globOptions = [ cwd |-> None, maxConcurrency |-> None ]
    /\ tree = <<>>
    /\ faults = <<>>
    /\ glob = <<>>
    /\ stack = <<>>
    /\ concurrency = 0
    /\ results = <<>>
    /\ inflight = EmptyBag
    /\ promise = [ state |-> "none", value |-> <<>>, reason |-> None ]
    /\ trace = [ launched |-> 0, enoent |-> {}, onResolve |-> 0, onReject |-> 0,
                 uncaught |-> FALSE ]

\* no workspace is discovered
NoDiscover ==
    /\ disk = [ manifests |-> <<>>, notDirectory |-> "ENOTDIR" ]
    /\ discoverOptions = [ cwd |-> None, maxDepth |-> None ]
    /\ discovery = [ phase |-> "none", cwd |-> <<>>, depth |-> 0, root |-> None,
                     loads |-> <<>>, index |-> 0, paths |-> <<>>, outcome |-> None ]

\* no build runs and no entity is declared
NoRollup ==
    /\ build = [ phase |-> "none" ]
    /\ heap = [ objects |-> <<>>, sets |-> <<>> ]
    /\ invocation = [ count |-> 0 ]

Options(moduleName, includeSelf, exclude, dependencyMaps) ==
    [ moduleName |-> moduleName,
      includeSelf |-> includeSelf,
      exclude |-> exclude,
      dependencyMaps |-> dependencyMaps ]

\* exclude: not given, or one member name
ExcludeValues == { None } \cup { Some(<<m>>) : m \in Members }

\* the options of the traversal calls of Spec
TraversalOptions ==
    { Options(m, s, x, None) :
        m \in Members \cup {RootName, MissingName},
        s \in { None, Some(TRUE), Some(FALSE) },
        x \in ExcludeValues }

NoCall == [ fn |-> "none", options |-> Options(MissingName, None, None, None) ]
NoResult ==
    [ status |-> "none", buildOrder |-> <<>>, root |-> None,
      cycleStart |-> None, cycleInfo |-> <<>> ]
NoGraph == [ name \in {} |-> NewNode(name) ]

\* a workspace whose members depend on each other through at most MaxDeps
\* workspace-linked production dependencies
Init ==
    /\ workspace \in
         { Workspace({ Entry(p[1], "dependencies", p[2], SpecWsAny) : p \in pairs }) :
             pairs \in { d \in SUBSET (Members \X Members) : Cardinality(d) <= MaxDeps } }
    /\ call = NoCall
    /\ result = NoResult
    /\ graph = NoGraph
    /\ first = None
    /\ NoText
    /\ NoGlob
    /\ NoDiscover
    /\ NoRollup

Finish(fn, options, outcome) ==
    /\ call' = [ fn |-> fn, options |-> options ]
    /\ result' = outcome.result
    /\ graph' = outcome.graph
    /\ UNCHANGED <<workspace, textVars, globVars, discoverVars, rollupVars>>

\* Spec: one traversal call on a workspace
CallGetDependencies ==
    /\ call = NoCall
    /\ \E options \in TraversalOptions :
         Finish("getDependencies", options, getDependencies(workspace, options))
    /\ UNCHANGED first

CallGetDependents ==
    /\ call = NoCall
    /\ \E options \in TraversalOptions :
         Finish("getDependents", options, getDependents(workspace, options))
    /\ UNCHANGED first

Next == CallGetDependencies \/ CallGetDependents

Spec == Init /\ [][Next]_vars

(***************************************************************************)
(* SpecGraph: buildGraph on workspaces whose manifests use every map and   *)
(* several kinds of specifier                                              *)
(***************************************************************************)
InitGraph ==
    LET \* at most MaxEntries pairs (module, package it lists), the package a member
        \* or one outside the workspace, each with one kind of entry: <<map,
        \* specifier>> pairs
        DeclaredWorkspaces ==
            LET SpecSemver == <<"^", "1", ".", "0">>
                EntryKinds ==
                    { { <<"dependencies", SpecWsAny>> },
                      { <<"devDependencies", WORKSPACE_PREFIX \o <<"^">>>> },
                      { <<"peerDependencies", SpecWsAny>> },
                      { <<"optionalDependencies", SpecWsAny>> },
                      { <<"dependencies", SpecSemver>> },
                      { <<"dependencies", SpecNoColon>> },
                      { <<"dependencies", <<"n", "p", "m", ":">> \o WORKSPACE_PREFIX \o <<"*">>>> },
                      { <<"dependencies", SpecWsAny>>, <<"devDependencies", SpecWsAny>> },
                      { <<"dependencies", SpecSemver>>, <<"optionalDependencies", SpecWsAny>> } }
                Slots == Members \X (Members \cup {"lodash"})
                EntriesOf(chosenKinds) ==
                    UNION { { Entry(slot[1], k[1], slot[2], k[2]) : k \in chosenKinds[slot] } :
                              slot \in DOMAIN chosenKinds }
            IN  UNION { { Workspace(EntriesOf(kinds)) : kinds \in [ chosen -> EntryKinds ] } :
                          chosen \in { c \in SUBSET Slots : Cardinality(c) <= MaxEntries } }
    IN
    /\ workspace \in DeclaredWorkspaces
    /\ call = NoCall
    /\ result = NoResult
    /\ graph = NoGraph
    /\ first = None
    /\ NoText
    /\ NoGlob
    /\ NoDiscover
    /\ NoRollup

CallBuildGraph ==
    LET \* exclude as in Spec; dependencyMaps not given, empty, or naming maps
        GraphOptionsValues ==
            { [ exclude |-> x, dependencyMaps |-> k ] :
                x \in ExcludeValues,
                k \in { None,
                        Some(<<>>),
                        Some(<<"optionalDependencies">>),
                        Some(<<"devDependencies", "optionalDependencies">>) } }
    IN
    /\ call = NoCall
    /\ \E options \in GraphOptionsValues :
         Finish("buildGraph", options,
                [ result |-> [ NoResult EXCEPT !.status = "graph" ],
                  graph |-> buildGraph(workspace, options) ])
    /\ UNCHANGED first

SpecGraph == InitGraph /\ [][CallBuildGraph]_vars

(***************************************************************************)
(* SpecPure: any sequence of traversal calls on one workspace; `first`     *)
(* keeps the first call of the sequence and what it returned               *)
(***************************************************************************)
\* `interleaved` tells that a call other than the first one was made after it
Observe ==
    first' = IF first = None
             THEN Some([ call |-> call', result |-> result', graph |-> graph',
                         workspace |-> workspace, interleaved |-> FALSE ])
             ELSE [ first EXCEPT ![1].interleaved = @ \/ call' # first[1].call ]

PureGetDependencies ==
    \E m \in Members :
        /\ Finish("getDependencies", Options(m, None, None, None),
                  getDependencies(workspace, Options(m, None, None, None)))
        /\ Observe

PureGetDependents ==
    \E m \in Members :
        /\ Finish("getDependents", Options(m, None, None, None),
                  getDependents(workspace, Options(m, None, None, None)))
        /\ Observe

SpecPure == Init /\ [][PureGetDependencies \/ PureGetDependents]_vars

(***************************************************************************)
(* Glob patterns (parseGlob).  A string is the sequence of its characters; *)
(* indices into strings are counted from 0 as in the source.               *)
(***************************************************************************)
CC_SEP_POSIX == "/"
CC_SEP_WINDOWS == "\\"
CC_WILD_SINGLE == "?"
CC_WILD_MANY == "*"
CC_WILD_GROUP == "["

RecursiveWildcardError == "Recursive wildcard (**) is not supported."
GroupWildcardError == "Group wildcards (e.g. [abc]) are not supported."

\* pattern.slice(from, to)
slice(string, from, to) == SubSeq(string, from + 1, to)

\* pattern.charCodeAt(index): NaN, here None, outside the string
charCodeAt(string, index) ==
    IF index >= 0 /\ index < Len(string) THEN Some(string[index + 1]) ELSE None

StaticSegment(segment) == [ resolve |-> "resolveStaticSegment", segment |-> segment ]

WildcardSegment(parts) == [ resolve |-> "resolveWildcardSegment", pattern |-> parts ]

\* mutant of endOfSegment: the separator that begins the pattern is dropped
endOfSegment_dropInitial(p, pattern) ==
    LET parts == IF p.index > p.anchor
                 THEN Append(p.parts, slice(pattern, p.anchor, p.index))
                 ELSE p.parts
        segments == IF p.hasWildcards
                    THEN Append(p.glob, WildcardSegment(parts))
                    ELSE IF Len(parts) > 0
                         THEN Append(p.glob, StaticSegment(parts[1]))
                         ELSE p.glob
    IN  [ p EXCEPT !.glob = segments,
                   !.parts = <<>>,
                   !.hasWildcards = FALSE,
                   !.anchor = p.index + 1 ]

\* lines 90-114
endOfSegment(p, pattern) ==
    LET parts == IF p.index > p.anchor
                 THEN Append(p.parts, slice(pattern, p.anchor, p.index))
                 ELSE p.parts
        segments == IF p.hasWildcards
                    THEN Append(p.glob, WildcardSegment(parts))
                    ELSE IF Len(parts) > 0
                         THEN Append(p.glob, StaticSegment(parts[1]))
                         ELSE p.glob
    IN  [ p EXCEPT !.glob = segments,
                   !.parts = IF p.hasWildcards \/ Len(parts) > 0 THEN <<>> ELSE parts,
                   !.hasWildcards = FALSE,
                   !.anchor = IF p.index = 0 THEN 0 ELSE p.index + 1 ]

\* lines 131-139: a marker ends the literal before it and becomes a part
wildcard(p, pattern) ==
    LET parts == IF p.index > p.anchor
                 THEN Append(p.parts, slice(pattern, p.anchor, p.index))
                 ELSE p.parts
    IN  [ p EXCEPT !.parts = Append(parts, <<pattern[p.index + 1]>>),
                   !.hasWildcards = TRUE,
                   !.anchor = p.index + 1 ]

\* mutant of scanChar: the group wildcard is read as an ordinary character
scanChar_groupLiteral(p, pattern) ==
    LET cc == pattern[p.index + 1]
    IN  IF cc = CC_SEP_POSIX \/ cc = CC_SEP_WINDOWS
        THEN endOfSegment(p, pattern)
        ELSE IF cc = CC_WILD_MANY
             THEN IF charCodeAt(pattern, p.index - 1) = Some(CC_WILD_MANY)
                  THEN [ p EXCEPT !.error = Some(RecursiveWildcardError) ]
                  ELSE wildcard(p, pattern)
             ELSE IF cc = CC_WILD_SINGLE
                  THEN wildcard(p, pattern)
                  ELSE p

\* lines 117-143: the body of the scanning loop
scanChar(p, pattern) ==
    LET cc == pattern[p.index + 1]
    IN  IF cc = CC_SEP_POSIX \/ cc = CC_SEP_WINDOWS
        THEN endOfSegment(p, pattern)
        ELSE IF cc = CC_WILD_MANY
             THEN IF charCodeAt(pattern, p.index - 1) = Some(CC_WILD_MANY)
                  THEN [ p EXCEPT !.error = Some(RecursiveWildcardError) ]
                  ELSE wildcard(p, pattern)
             ELSE IF cc = CC_WILD_SINGLE
                  THEN wildcard(p, pattern)
                  ELSE IF cc = CC_WILD_GROUP
                       THEN [ p EXCEPT !.error = Some(GroupWildcardError) ]
                       ELSE p

\* lines 116-146: the loop, left by a throw or at the end of the pattern
RECURSIVE scan(_, _)
scan(p, pattern) ==
    IF p.index < Len(pattern)
    THEN LET q == scanChar(p, pattern)
         IN  IF q.error # None
             THEN q
             ELSE scan([ q EXCEPT !.index = p.index + 1 ], pattern)
    ELSE endOfSegment(p, pattern)

\* lines 80-148: the segments, or the error thrown
parseGlob(pattern) ==
    LET p == scan([ glob |-> <<>>, index |-> 0, hasWildcards |-> FALSE, anchor |-> 0,
                    parts |-> <<>>, error |-> None ],
                  pattern)
    IN  [ error |-> p.error, glob |-> IF p.error = None THEN p.glob ELSE <<>> ]

(***************************************************************************)
(* Matching one entry name against the parts of a wildcard segment         *)
(* (matchesPattern)                                                        *)
(***************************************************************************)
WILD_SINGLE == <<"?">>
WILD_MANY == <<"*">>

\* what `undefined` reads as where a string is expected (line 283)
UNDEFINED_TEXT == <<"u", "n", "d", "e", "f", "i", "n", "e", "d">>

\* input.startsWith(segment, offset)
startsWithAt(input, segment, offset) ==
    /\ offset + Len(segment) <= Len(input)
    /\ \A i \in 1..Len(segment) : input[offset + i] = segment[i]

PatternMatch(index, offset) == [ index |-> index, offset |-> offset ]

MatchReturned(value) == [ thrown |-> FALSE, value |-> value ]

\* lines 259-266 and 271-276: a candidate for every offset from `from` on,
\* in rising order; with `cc` given, only where the input has that character
RECURSIVE candidates(_, _, _, _)
candidates(next, input, from, cc) ==
    IF from >= Len(input)
    THEN <<>>
    ELSE ( IF cc = None \/ charCodeAt(input, from) = cc
           THEN <<PatternMatch(next, from)>>
           ELSE <<>> )
         \o candidates(next, input, from + 1, cc)

\* lines 245-279: what the many-wildcard at match.index pushes
wildMany(pattern, input, match) ==
    LET next == match.index + 1
        segment == pattern[next + 1]
    IN  ( IF segment # WILD_SINGLE /\ segment # WILD_MANY
          THEN candidates(next, input, match.offset, charCodeAt(segment, 0))
          ELSE <<>> )
        \o candidates(next, input, match.offset, None)

\* lines 229-290: one pass of the loop: the state on top is popped and the
\* call returns or throws (`ended`), or goes on with the stack `states`
iteration(pattern, input, states) ==
    LET match == states[Len(states)]
        popped == SubSeq(states, 1, Len(states) - 1)
        segment == IF match.index < Len(pattern)
                   THEN Some(pattern[match.index + 1])
                   ELSE None
        continue(rest) == [ ended |-> None, states |-> rest ]
        end(outcome) == [ ended |-> Some(outcome), states |-> popped ]
    IN  IF match.index = Len(pattern) /\ match.offset = Len(input)
        THEN end(MatchReturned(TRUE))
        ELSE IF segment = Some(WILD_SINGLE)
        THEN continue(IF match.offset < Len(input)
                      THEN Append(popped, PatternMatch(match.index + 1, match.offset + 1))
                      ELSE popped)
        ELSE IF segment = Some(WILD_MANY)
        THEN IF match.index + 1 = Len(pattern)
             THEN end(MatchReturned(TRUE))
             ELSE continue(popped \o wildMany(pattern, input, match))
        ELSE IF segment = None
        THEN \* pattern[match.index] is undefined
             IF startsWithAt(input, UNDEFINED_TEXT, match.offset)
             THEN end([ thrown |-> TRUE, value |-> FALSE ])  \* TypeError
             ELSE continue(popped)
        ELSE IF startsWithAt(input, segment[1], match.offset)
             THEN continue(Append(popped, PatternMatch(match.index + 1,
                                                       match.offset + Len(segment[1]))))
             ELSE continue(popped)

\* lines 228-294: the loop over the stack of candidates
RECURSIVE matchLoop(_, _, _)
matchLoop(pattern, input, states) ==
    LET pass == iteration(pattern, input, states)
    IN  IF pass.ended # None
        THEN pass.ended[1]
        ELSE IF Len(pass.states) > 0
             THEN matchLoop(pattern, input, pass.states)
             ELSE MatchReturned(FALSE)

\* lines 216-295
matchesPattern(pattern, input) == matchLoop(pattern, input, <<PatternMatch(0, 0)>>)

(***************************************************************************)
(* The file system a resolveGlob call walks.  A path is the sequence of    *)
(* its components below the working directory, which is the root here; an  *)
(* entry name is a string.                                                 *)
(***************************************************************************)
Cwd == <<>>

NameA == <<"a">>

EntryNames == { NameA, (<<"a">> \o UNDEFINED_TEXT) }

ENOENT == "ENOENT"
EACCES == "EACCES"
ENOTDIR == "ENOTDIR"

FsError(code) == [ code |-> Some(code), message |-> code ]

\* new Error(message): an error without a code
PlainError(message) == [ code |-> None, message |-> message ]

\* mutant of isENOENT: no error counts as path-does-not-exist
isENOENT_never(ex) == FALSE

\* common.ts: ex?.code === "ENOENT"
isENOENT(ex) == ex # None /\ ex[1].code = Some(ENOENT)

parentOf(path) == SubSeq(path, 1, Len(path) - 1)

Prefixes(path) == { SubSeq(path, 1, n) : n \in 0..Len(path) }

\* the components of a string between separators
RECURSIVE componentsOf(_, _)
componentsOf(string, current) ==
    IF string = <<>>
    THEN ( IF current = <<>> THEN <<>> ELSE <<current>> )
    ELSE IF string[1] = CC_SEP_POSIX \/ string[1] = CC_SEP_WINDOWS
         THEN ( IF current = <<>> THEN <<>> ELSE <<current>> )
              \o componentsOf(Tail(string), <<>>)
         ELSE componentsOf(Tail(string), Append(current, string[1]))

\* path.join(basePath, name), normalised: empty and "." components are
\* dropped, ".." steps to the parent, the root being its own parent
RECURSIVE joinComponents(_, _)
joinComponents(basePath, components) ==
    IF components = <<>>
    THEN basePath
    ELSE LET c == Head(components)
             base == IF c = <<".">>
                     THEN basePath
                     ELSE IF c = <<".", ".">>
                          THEN ( IF basePath = <<>> THEN basePath ELSE parentOf(basePath) )
                          ELSE Append(basePath, c)
         IN  joinComponents(base, Tail(components))

join(basePath, name) == joinComponents(basePath, componentsOf(name, <<>>))

\* the error an operation on `path` fails with, None when it succeeds:
\* a fault on the path or above it, else ENOENT where nothing exists
failure(fsTree, fsFaults, path) ==
    LET faulty == { q \in Prefixes(path) : q \in DOMAIN fsFaults }
    IN  IF faulty # {}
        THEN Some(FsError(fsFaults[CHOOSE q \in faulty :
                                     \A r \in faulty : Len(q) <= Len(r)]))
        ELSE IF path # Cwd /\ path \notin DOMAIN fsTree
             THEN Some(FsError(ENOENT))
             ELSE None

\* Stats.isDirectory() / Dirent.isDirectory()
isDirectory(fsTree, path) == path = Cwd \/ fsTree[path] = "directory"

(***************************************************************************)
(* resolveGlob: the walker.  `stack`, `concurrency` and `results` are the  *)
(* locals of the call, `inflight` the stat / readdir operations launched   *)
(* and not yet completed (each named by the frame it was launched for),    *)
(* `promise` the promise returned, `trace` what the call did so far.       *)
(***************************************************************************)
DEFAULT_MAX_CONCURRENCY == 16

GlobMatch(index, path) == [ index |-> index, path |-> path ]

NoPromise == [ state |-> "none", value |-> <<>>, reason |-> None ]

NoTrace ==
    [ launched |-> 0, enoent |-> {}, onResolve |-> 0, onReject |-> 0,
      uncaught |-> FALSE ]

\* the locals of a call, gathered
Walker ==
    [ stack |-> stack, concurrency |-> concurrency, results |-> results,
      inflight |-> inflight, promise |-> promise, trace |-> trace ]

\* line 27: Math.max(1, options?.maxConcurrency ?? 16)
maxConcurrencyOf(options) ==
    LET given == IF options.maxConcurrency = None
                 THEN DEFAULT_MAX_CONCURRENCY
                 ELSE options.maxConcurrency[1]
    IN  IF given > 1 THEN given ELSE 1

\* a settled promise ignores further calls of its callbacks
onResolve(w, value) ==
    [ w EXCEPT !.promise = IF @.state = "pending"
                           THEN [ @ EXCEPT !.state = "fulfilled", !.value = value ]
                           ELSE @,
               !.trace.onResolve = @ + 1 ]

onReject(w, ex) ==
    [ w EXCEPT !.promise = IF @.state = "pending"
                           THEN [ @ EXCEPT !.state = "rejected", !.reason = Some(ex) ]
                           ELSE @,
               !.trace.onReject = @ + 1 ]

\* mutant of launch: the counter is not raised
launch_uncounted(w, pointer) ==
    [ w EXCEPT !.inflight = @ (+) SetToBag({pointer}),
               !.trace.launched = @ + 1 ]

\* lines 52-61: the segment's resolve starts its stat or readdir
launch(w, pointer) ==
    [ w EXCEPT !.concurrency = @ + 1,
               !.inflight = @ (+) SetToBag({pointer}),
               !.trace.launched = @ + 1 ]

\* lines 45-62
RECURSIVE drain(_, _, _)
drain(w, segments, maxConcurrency) ==
    IF w.concurrency < maxConcurrency /\ Len(w.stack) > 0
    THEN LET pointer == w.stack[Len(w.stack)]
             popped == [ w EXCEPT !.stack = SubSeq(@, 1, Len(@) - 1) ]
         IN  IF pointer.index = Len(segments)
             THEN drain([ popped EXCEPT !.results = Append(@, pointer.path) ],
                        segments, maxConcurrency)
             ELSE drain(launch(popped, pointer), segments, maxConcurrency)
    ELSE w

\* mutant of next: the call resolves as soon as the stack is empty
next_resolveOnEmptyStack(w, ex, segments, maxConcurrency) ==
    IF ex # None /\ ~isENOENT(ex)
    THEN onReject(w, ex[1])
    ELSE LET d == drain([ w EXCEPT !.concurrency = @ - 1 ], segments, maxConcurrency)
         IN  IF Len(d.stack) = 0
             THEN onResolve(d, d.results)
             ELSE d

\* lines 38-67
next(w, ex, segments, maxConcurrency) ==
    IF ex # None /\ ~isENOENT(ex)
    THEN onReject(w, ex[1])
    ELSE LET d == drain([ w EXCEPT !.concurrency = @ - 1 ], segments, maxConcurrency)
         IN  IF d.concurrency = 0 /\ Len(d.stack) = 0
             THEN onResolve(d, d.results)
             ELSE d

\* an operation on `path` failed; the paths that failed with ENOENT are kept
failed(w, path, ex) ==
    IF ex[1].code = Some(ENOENT) THEN [ w EXCEPT !.trace.enoent = @ \cup {path} ] ELSE w

push(w, index, path) == [ w EXCEPT !.stack = Append(@, GlobMatch(index, path)) ]

\* lines 199-207: the loop over the entries; a throw of matchesPattern leaves
\* the loop and the callback with what was pushed so far
RECURSIVE listed(_, _, _, _, _, _, _)
listed(w, entries, basePath, pattern, nextIndex, isLast, fsTree) ==
    IF entries = <<>>
    THEN [ w |-> w, thrown |-> FALSE ]
    ELSE LET entry == Head(entries)
             name == entry[Len(entry)]
         IN  IF isLast \/ isDirectory(fsTree, entry)
             THEN LET m == matchesPattern(pattern, name)
                  IN  IF m.thrown
                      THEN [ w |-> w, thrown |-> TRUE ]
                      ELSE listed(IF m.value
                                  THEN push(w, nextIndex, join(basePath, name))
                                  ELSE w,
                                  Tail(entries), basePath, pattern, nextIndex, isLast,
                                  fsTree)
             ELSE listed(w, Tail(entries), basePath, pattern, nextIndex, isLast, fsTree)

\* the callback of an operation runs: the operation is no longer in flight
completed(w, pointer) == [ w EXCEPT !.inflight = @ (-) SetToBag({pointer}) ]

(***************************************************************************)
(* discovery.ts.  The manifest of a directory is the file package.json in  *)
(* it: `tree` lists it as a file, `disk.manifests` holds for its directory *)
(* whether it can be read and its text.  A text is malformed, or the       *)
(* stringified declaration JSON.parse gives back.  `disk.notDirectory` is  *)
(* the code the platform reports for a path that runs through a regular    *)
(* file: ENOTDIR on POSIX, ENOENT on Windows.                              *)
(***************************************************************************)
DEFAULT_MAX_DEPTH == 5

PACKAGE_JSON == <<"p", "a", "c", "k", "a", "g", "e", ".", "j", "s", "o", "n">>

SyntaxError == [ code |-> None, message |-> "SyntaxError" ]

\* readFile(path, "utf8"), path being the manifest of a directory
readFile(fsTree, fsDisk, path) ==
    LET above == { q \in Prefixes(path) : q # path /\ q # Cwd }
    IN  IF \E q \in above : q \in DOMAIN fsTree /\ fsTree[q] = "file"
        THEN [ error |-> Some(FsError(fsDisk.notDirectory)), json |-> None ]
        ELSE IF path \notin DOMAIN fsTree
        THEN [ error |-> Some(FsError(ENOENT)), json |-> None ]
        ELSE IF ~fsDisk.manifests[parentOf(path)].readable
        THEN [ error |-> Some(FsError(EACCES)), json |-> None ]
        ELSE [ error |-> None, json |-> Some(fsDisk.manifests[parentOf(path)].text) ]

DiscoveredModule(dir, declaration) == [ baseDir |-> dir, declaration |-> declaration ]

ModuleReturned(value) == [ thrown |-> None, value |-> value ]

ModuleThrew(ex) == [ thrown |-> Some(ex), value |-> None ]

\* mutant of malformedManifest: the parse failure is not attached
malformedManifest_noCause(path, ex) ==
    [ code |-> None, message |-> "Could not parse 'package.json' file", path |-> path,
      cause |-> None ]

\* lines 101-103: new Error(`Could not parse ...`, { cause: ex })
malformedManifest(path, ex) ==
    [ code |-> None, message |-> "Could not parse 'package.json' file", path |-> path,
      cause |-> Some(ex) ]

\* lines 79-105
discoverModule(dir, fsTree, fsDisk) ==
    LET \* JSON.parse(json)
        JSONparse(json) ==
            IF json.malformed
            THEN [ thrown |-> Some(SyntaxError), value |-> None ]
            ELSE [ thrown |-> None, value |-> json.stringified ]
    IN
    LET path == join(dir, <<".", "/">> \o PACKAGE_JSON)
        read == readFile(fsTree, fsDisk, path)
    IN  IF read.error # None
        THEN ( IF isENOENT(read.error)
               THEN ModuleReturned(None)
               ELSE ModuleThrew(read.error[1]) )
        ELSE LET parse == JSONparse(read.json[1])
             IN  IF parse.thrown # None
                 THEN ModuleThrew(malformedManifest(path, parse.thrown[1]))
                 ELSE ModuleReturned(Some(DiscoveredModule(dir, parse.value[1])))

\* line 29: Math.max(1, options?.maxDepth ?? 5)
maxDepthOf(options) ==
    LET given == IF options.maxDepth = None THEN DEFAULT_MAX_DEPTH ELSE options.maxDepth[1]
    IN  IF given > 1 THEN given ELSE 1

\* line 31: options?.cwd ? resolve(options.cwd) : process.cwd()
startOf(options) == IF options.cwd = None THEN Cwd ELSE options.cwd[1]

\* lines 37 and 50: root?.declaration.workspaces is truthy; so is an empty array
hasWorkspaces(root) == root # None /\ root[1].declaration.workspaces # None

DiscoveryResolved(value) == [ rejected |-> None, value |-> value ]

\* mutant of DiscoveryRejected: the error is replaced by one of discoverWorkspace
DiscoveryRejected_replaced(ex) ==
    [ rejected |-> Some(PlainError("discovery failed")), value |-> None ]

DiscoveryRejected(ex) == [ rejected |-> Some(ex), value |-> None ]

\* lines 62-67 begin: discoverModule on every resolved path
RECURSIVE loadAll(_, _, _)
loadAll(paths, fsTree, fsDisk) ==
    IF paths = <<>>
    THEN <<>>
    ELSE <<[ stage |-> "member", dir |-> Head(paths),
             outcome |-> discoverModule(Head(paths), fsTree, fsDisk) ]>>
         \o loadAll(Tail(paths), fsTree, fsDisk)

\* line 67: filter(Boolean)
RECURSIVE filterBoolean(_)
filterBoolean(loads) ==
    IF loads = <<>>
    THEN <<>>
    ELSE ( IF Head(loads).outcome.value # None
           THEN <<Head(loads).outcome.value[1]>>
           ELSE <<>> )
         \o filterBoolean(Tail(loads))

(***************************************************************************)
(* SpecParse: parseGlob on every short pattern                             *)
(***************************************************************************)
NoGraphCall ==
    /\ workspace = Workspace({})
    /\ call = NoCall
    /\ result = NoResult
    /\ graph = NoGraph
    /\ first = None

Strings(chars, maxLen) == UNION { [ 1..n -> chars ] : n \in 0..maxLen }

InitParse ==
    /\ patternText \in Strings({ "a", "b", CC_SEP_POSIX, CC_SEP_WINDOWS, CC_WILD_SINGLE,
                                 CC_WILD_MANY, CC_WILD_GROUP },
                               MaxPatternLen)
    /\ parsed = None
    /\ matchParts = <<>>
    /\ matchInput = <<>>
    /\ matched = None
    /\ matchStack = <<>>
    /\ NoGraphCall
    /\ NoGlob
    /\ NoDiscover
    /\ NoRollup

ParseGlob ==
    /\ parsed = None
    /\ parsed' = Some(parseGlob(patternText))
    /\ UNCHANGED <<patternText, matchParts, matchInput, matched, matchStack, graphVars, globVars, discoverVars, rollupVars>>

SpecParse == InitParse /\ [][ParseGlob]_vars

(***************************************************************************)
(* SpecMatch: matchesPattern on the parts of every short wildcard segment  *)
(* and on short entry names, some of which hold the text of `undefined`    *)
(***************************************************************************)
NameChars == { "a", "b" }

\* the part lists parseGlob makes of the patterns of one component
CompiledParts ==
    { parseGlob(p).glob[1].pattern :
        p \in { q \in Strings((NameChars \cup { CC_WILD_SINGLE, CC_WILD_MANY }), MaxPatternLen) :
                  /\ parseGlob(q).error = None
                  /\ Len(parseGlob(q).glob) = 1
                  /\ parseGlob(q).glob[1].resolve = "resolveWildcardSegment" } }

EntryInputs ==
    Strings(NameChars, MaxNameLen)
    \cup { n \o UNDEFINED_TEXT \o m : n, m \in Strings(NameChars, 1) }

InitMatch ==
    /\ matchParts \in CompiledParts
    /\ matchInput \in EntryInputs
    /\ matched = None
    /\ matchStack = <<>>
    /\ patternText = <<>>
    /\ parsed = None
    /\ NoGraphCall
    /\ NoGlob
    /\ NoDiscover
    /\ NoRollup

MatchesPattern ==
    /\ matched = None
    /\ matched' = Some(matchesPattern(matchParts, matchInput))
    /\ UNCHANGED <<patternText, parsed, matchParts, matchInput, matchStack, graphVars, globVars, discoverVars, rollupVars>>

SpecMatch == InitMatch /\ [][MatchesPattern]_vars

(***************************************************************************)
(* SpecMatchStepsFair: matchesPattern one pass of its loop at a time; the   *)
(* loop is synchronous code: once entered it keeps running                 *)
(***************************************************************************)
\* lines 219-224: the call begins with the state (0, 0) on the stack
InitMatchSteps ==
    /\ matchParts \in CompiledParts
    /\ matchInput \in EntryInputs
    /\ matched = None
    /\ matchStack = <<PatternMatch(0, 0)>>
    /\ patternText = <<>>
    /\ parsed = None
    /\ NoGraphCall
    /\ NoGlob
    /\ NoDiscover
    /\ NoRollup

\* lines 228-294: one pass; the loop is left by a return, a throw, or with
\* the stack empty
MatchIteration ==
    /\ matched = None
    /\ LET pass == iteration(matchParts, matchInput, matchStack)
       IN  /\ matchStack' = pass.states
           /\ matched' = IF pass.ended # None
                         THEN pass.ended
                         ELSE IF Len(pass.states) > 0
                              THEN None
                              ELSE Some(MatchReturned(FALSE))
    /\ UNCHANGED <<patternText, parsed, matchParts, matchInput, graphVars, globVars, discoverVars, rollupVars>>

SpecMatchStepsFair ==
    InitMatchSteps /\ [][MatchIteration]_vars /\ WF_vars(MatchIteration)

(***************************************************************************)
(* SpecGlob: one resolveGlob call on a small file tree; the operations in  *)
(* flight complete in any order                                            *)
(***************************************************************************)
\* the pattern whose components are the given strings
RECURSIVE PatternOf(_)
PatternOf(components) ==
    IF Len(components) = 1
    THEN components[1]
    ELSE components[1] \o <<CC_SEP_POSIX>> \o PatternOf(Tail(components))

NoFaults == <<>>

InitGlob ==
    LET \* the working directory holds entries of the names of EntryNames, each
        \* directory of them an entry `a`; every entry lies in a directory
        Trees ==
            UNION { { t \in [ held -> {"file", "directory"} ] :
                        \A q \in held :
                            Len(q) > 1 => (parentOf(q) \in held /\ t[parentOf(q)] = "directory") } :
                      held \in { h \in SUBSET ({ <<n>> : n \in EntryNames }
                                                 \cup { <<n, NameA>> : n \in EntryNames }) :
                                    Cardinality(h) <= MaxFiles } }
    IN
    /\ patternText \in
         { PatternOf(c) :
             c \in { <<NameA>>, <<WILD_MANY>>, <<WILD_SINGLE>>,
                     <<NameA, NameA>>, <<NameA, WILD_MANY>>, <<WILD_MANY, NameA>>,
                     <<WILD_MANY, WILD_MANY>>, <<WILD_SINGLE, WILD_MANY>>,
                     <<WILD_MANY, WILD_SINGLE>>,
                     <<WILD_MANY, WILD_MANY, NameA>>, <<WILD_MANY, NameA, WILD_MANY>>,
                     <<<<"*", "*">>>>, <<NameA, <<"*", "*">>>>, <<<<"[">>>>,
                     <<WILD_MANY, <<"[", "a", "]">>>>,
                     <<WILD_MANY, <<".", ".">>>> } }
    /\ globOptions \in { [ cwd |-> None, maxConcurrency |-> m ] :
                            m \in { None, Some(0), Some(1), Some(2) } }
    /\ tree \in Trees
    \* at most one path is faulty: operations on it or below it fail with
    \* EACCES, or with ENOENT although the directory above lists it
    /\ faults \in {NoFaults}
                  \cup { [ q \in {path} |-> code ] :
                           path \in {Cwd} \cup DOMAIN tree, code \in {EACCES, ENOENT} }
    /\ glob = <<>>
    /\ stack = <<>>
    /\ concurrency = 0
    /\ results = <<>>
    /\ inflight = EmptyBag
    /\ promise = NoPromise
    /\ trace = NoTrace
    /\ parsed = None
    /\ matchParts = <<>>
    /\ matchInput = <<>>
    /\ matched = None
    /\ matchStack = <<>>
    /\ NoGraphCall
    /\ NoDiscover
    /\ NoRollup

\* the locals of the call become what `w` holds
Becomes(w) ==
    /\ stack' = w.stack
    /\ concurrency' = w.concurrency
    /\ results' = w.results
    /\ inflight' = w.inflight
    /\ promise' = w.promise
    /\ trace' = w.trace

\* the locals of a call that has not begun
NewWalker ==
    [ stack |-> <<>>, concurrency |-> 0, results |-> <<>>, inflight |-> EmptyBag,
      promise |-> NoPromise, trace |-> NoTrace ]

\* lines 26-70: the executor of the promise; what it throws rejects the promise
executor(pattern, options) ==
    LET compiled == parseGlob(pattern)
        \* line 34: options?.cwd ? resolve(options.cwd) : process.cwd()
        cwd == IF options.cwd = None THEN Cwd ELSE options.cwd[1]
    IN  IF compiled.error # None
        THEN /\ glob' = <<>>
             /\ Becomes([ NewWalker EXCEPT
                            !.promise = [ NoPromise EXCEPT
                                            !.state = "rejected",
                                            !.reason = Some(PlainError(compiled.error[1])) ] ])
        ELSE /\ glob' = compiled.glob
             /\ Becomes(next([ NewWalker EXCEPT !.stack = <<GlobMatch(0, cwd)>>,
                                                !.concurrency = 1,
                                                !.promise = [ NoPromise EXCEPT
                                                                !.state = "pending" ] ],
                             None, compiled.glob, maxConcurrencyOf(options)))

\* lines 22-71
ResolveGlob ==
    /\ promise.state = "none"
    /\ executor(patternText, globOptions)
    /\ UNCHANGED <<globOptions, tree, faults, textVars, graphVars, discoverVars, rollupVars>>

\* a stat in flight completes and its callback runs
StatCompletes ==
    LET \* lines 158-173: the callback of stat
        statCompleted(w, pointer, segments, maxConcurrency, fsTree, fsFaults) ==
            LET nextIndex == pointer.index + 1
                isLast == nextIndex = Len(segments)
                path == join(pointer.path, segments[pointer.index + 1].segment)
                ex == failure(fsTree, fsFaults, path)
            IN  IF ex # None
                THEN next(failed(w, path, ex), ex, segments, maxConcurrency)
                ELSE next(IF isLast \/ isDirectory(fsTree, path)
                          THEN push(w, nextIndex, path)
                          ELSE w,
                          None, segments, maxConcurrency)
    IN
    \E pointer \in BagToSet(inflight) :
        /\ glob[pointer.index + 1].resolve = "resolveStaticSegment"
        /\ Becomes(statCompleted(completed(Walker, pointer), pointer, glob,
                                 maxConcurrencyOf(globOptions), tree, faults))
        /\ UNCHANGED <<glob, globOptions, tree, faults, textVars, graphVars, discoverVars, rollupVars>>

\* a readdir in flight completes and its callback runs
ReaddirCompletes ==
    LET \* the orders in which readdir may list the entries
        Listings(fsTree, path) ==
            LET \* the entries readdir lists, as paths
                children == { q \in DOMAIN fsTree : Len(q) = Len(path) + 1 /\ parentOf(q) = path }
            IN  { order \in [ 1..Cardinality(children) -> children ] :
                    \A i, j \in DOMAIN order : i # j => order[i] # order[j] }
    IN
    LET \* lines 189-210: the callback of readdir, the entries listed in `entries`;
        \* an exception that leaves the callback is caught by nobody
        readdirCompleted(w, pointer, entries, segments, maxConcurrency, fsTree, fsFaults) ==
            LET nextIndex == pointer.index + 1
                isLast == nextIndex = Len(segments)
                basePath == pointer.path
                \* readdir of something that is not a directory fails with ENOTDIR
                ex == IF failure(fsTree, fsFaults, basePath) # None
                      THEN failure(fsTree, fsFaults, basePath)
                      ELSE IF isDirectory(fsTree, basePath) THEN None ELSE Some(FsError(ENOTDIR))
            IN  IF ex # None
                THEN next(failed(w, basePath, ex), ex, segments, maxConcurrency)
                ELSE LET l == listed(w, entries, basePath, segments[pointer.index + 1].pattern,
                                     nextIndex, isLast, fsTree)
                     IN  IF l.thrown
                         THEN [ l.w EXCEPT !.trace.uncaught = TRUE ]
                         ELSE next(l.w, None, segments, maxConcurrency)
    IN
    \E pointer \in BagToSet(inflight) :
        /\ glob[pointer.index + 1].resolve = "resolveWildcardSegment"
        /\ \E entries \in Listings(tree, pointer.path) :
             Becomes(readdirCompleted(completed(Walker, pointer), pointer, entries, glob,
                                      maxConcurrencyOf(globOptions), tree, faults))
        /\ UNCHANGED <<glob, globOptions, tree, faults, textVars, graphVars, discoverVars, rollupVars>>

SpecGlob == InitGlob /\ [][ResolveGlob \/ StatCompletes \/ ReaddirCompletes]_vars

(***************************************************************************)
(* SpecDiscover: one discoverWorkspace call.  The resolveGlob calls of     *)
(* line 57 share no state and the file system is only read, so they are    *)
(* run one after the other, each as in SpecGlob.                           *)
(***************************************************************************)
DiscoverPaths == { <<NameA>>, <<NameA, NameA>> }

\* lines 29-33
InitDiscover ==
    LET \* any of the directories may hold a manifest: one that cannot be read, one
        \* whose text is malformed, or one whose text is the stringified declaration
        \* with the given `workspaces`
        ManifestsOf(fsTree) ==
            LET files ==
                    { [ readable |-> r, text |-> [ malformed |-> TRUE, stringified |-> None ] ] :
                        r \in BOOLEAN }
                    \cup { [ readable |-> TRUE,
                             text |-> [ malformed |-> FALSE,
                                        stringified |-> Some([ name |-> "A", workspaces |-> w ]) ] ] :
                             w \in { None, Some(<<>>), Some(<<WILD_MANY>>), Some(<<NameA>>),
                                     Some(<<<<CC_WILD_GROUP>>>>) } }
            IN  UNION { [ held -> files ] :
                          held \in SUBSET ({Cwd} \cup { q \in DOMAIN fsTree :
                                                          fsTree[q] = "directory" }) }
    IN
    LET \* every entry below the first level lies in a directory
        DiscoverTrees ==
            UNION { { t \in [ held -> {"file", "directory"} ] :
                        \A q \in held :
                            Len(q) > 1 => (parentOf(q) \in held /\ t[parentOf(q)] = "directory") } :
                      held \in SUBSET DiscoverPaths }
    IN
    /\ \E fsTree \in DiscoverTrees :
         \E manifests \in ManifestsOf(fsTree) :
            /\ tree = [ q \in DOMAIN fsTree
                               \cup { Append(dir, PACKAGE_JSON) : dir \in DOMAIN manifests } |->
                           IF q \in DOMAIN fsTree THEN fsTree[q] ELSE "file" ]
            /\ \E code \in { ENOTDIR, ENOENT } :
                 disk = [ manifests |-> manifests, notDirectory |-> code ]
    /\ discoverOptions \in { [ cwd |-> c, maxDepth |-> d ] :
                                c \in {None} \cup { Some(q) : q \in DiscoverPaths },
                                d \in { None, Some(0), Some(2) } }
    /\ discovery = [ phase |-> "walk", cwd |-> startOf(discoverOptions), depth |-> 1,
                     root |-> None, loads |-> <<>>, index |-> 0, paths |-> <<>>,
                     outcome |-> None ]
    /\ faults = NoFaults
    /\ globOptions = [ cwd |-> None, maxConcurrency |-> None ]
    /\ glob = <<>>
    /\ stack = <<>>
    /\ concurrency = 0
    /\ results = <<>>
    /\ inflight = EmptyBag
    /\ promise = NoPromise
    /\ trace = NoTrace
    /\ NoText
    /\ NoGraphCall
    /\ NoRollup

\* lines 35-52: one pass of the loop, from the load of `cwd` on; a pass that
\* leaves the loop goes on to the return of line 51 or to the globs
WalkUp ==
    /\ discovery.phase = "walk"
    /\ LET load == discoverModule(discovery.cwd, tree, disk)
           loads == Append(discovery.loads,
                           [ stage |-> "walk", dir |-> discovery.cwd, outcome |-> load ])
           parent == join(discovery.cwd, <<".", ".">>)
       IN  discovery' =
             IF load.thrown # None
             THEN [ discovery EXCEPT !.phase = "done", !.loads = loads,
                                     !.outcome = Some(DiscoveryRejected(load.thrown[1])) ]
             ELSE IF hasWorkspaces(load.value)
             THEN [ discovery EXCEPT !.phase = "globs", !.loads = loads,
                                     !.root = load.value ]
             ELSE IF parent = discovery.cwd
             THEN [ discovery EXCEPT !.phase = "done", !.loads = loads,
                                     !.root = load.value,
                                     !.outcome = Some(DiscoveryResolved(None)) ]
             ELSE IF discovery.depth + 1 <= maxDepthOf(discoverOptions)
             THEN [ discovery EXCEPT !.loads = loads, !.root = load.value,
                                     !.cwd = parent, !.depth = @ + 1 ]
             ELSE [ discovery EXCEPT !.phase = "done", !.loads = loads,
                                     !.root = load.value,
                                     !.cwd = parent, !.depth = @ + 1,
                                     !.outcome = Some(DiscoveryResolved(None)) ]
    /\ UNCHANGED <<disk, discoverOptions, globVars, textVars, graphVars, rollupVars>>

\* lines 54-57: resolveGlob(it, { cwd }) for the next declared glob
ResolveMembers ==
    /\ discovery.phase = "globs"
    /\ promise.state = "none"
    /\ discovery.index < Len(discovery.root[1].declaration.workspaces[1])
    /\ LET it == discovery.root[1].declaration.workspaces[1][discovery.index + 1]
           options == [ cwd |-> Some(discovery.cwd), maxConcurrency |-> None ]
       IN  /\ patternText' = it
           /\ globOptions' = options
           /\ executor(it, options)
    /\ UNCHANGED <<tree, faults, parsed, matchParts, matchInput, matched, matchStack,
                   graphVars, discoverVars, rollupVars>>

\* lines 55-60: the promise of a glob fulfilled, its paths join the others
GlobFulfilled ==
    /\ discovery.phase = "globs"
    /\ promise.state = "fulfilled"
    /\ discovery' = [ discovery EXCEPT !.paths = @ \o promise.value, !.index = @ + 1 ]
    /\ glob' = <<>>
    /\ Becomes(NewWalker)
    /\ UNCHANGED <<disk, discoverOptions, globOptions, tree, faults, textVars, graphVars, rollupVars>>

\* lines 55-58: the promise of a glob rejected, and Promise.all with it
GlobRejected ==
    /\ discovery.phase = "globs"
    /\ promise.state = "rejected"
    /\ discovery' = [ discovery EXCEPT
                        !.phase = "done",
                        !.outcome = Some(DiscoveryRejected(promise.reason[1])) ]
    /\ UNCHANGED <<disk, discoverOptions, globVars, textVars, graphVars, rollupVars>>

\* lines 62-72: every resolved path is loaded; Promise.all rejects with what
\* one of the loads threw
LoadMembers ==
    /\ discovery.phase = "globs"
    /\ promise.state = "none"
    /\ discovery.index = Len(discovery.root[1].declaration.workspaces[1])
    /\ LET loads == loadAll(discovery.paths, tree, disk)
           threw == { i \in DOMAIN loads : loads[i].outcome.thrown # None }
       IN  IF threw # {}
           THEN \E i \in threw :
                  discovery' = [ discovery EXCEPT
                                   !.phase = "done", !.loads = @ \o loads,
                                   !.outcome = Some(DiscoveryRejected(
                                                      loads[i].outcome.thrown[1])) ]
           ELSE discovery' = [ discovery EXCEPT
                                 !.phase = "done", !.loads = @ \o loads,
                                 !.outcome = Some(DiscoveryResolved(Some(
                                     [ root |-> discovery.root[1],
                                       modules |-> filterBoolean(loads) ]))) ]
    /\ UNCHANGED <<disk, discoverOptions, globVars, textVars, graphVars, rollupVars>>

SpecDiscover ==
    /\ InitDiscover
    /\ [][ \/ WalkUp
           \/ ResolveMembers
           \/ StatCompletes
           \/ ReaddirCompletes
           \/ GlobFulfilled
           \/ GlobRejected
           \/ LoadMembers ]_vars

(***************************************************************************)
(* SpecLookup: one getModuleOrNull or getModule call on a workspace as     *)
(* discoverWorkspace returns it; modules may share a name                  *)
(***************************************************************************)
\* modules.find(it => it.declaration.name === moduleName) ?? null
RECURSIVE find(_, _)
find(modules, moduleName) ==
    IF modules = <<>>
    THEN None
    ELSE IF Head(modules).declaration.name = moduleName
         THEN Some(Head(modules))
         ELSE find(Tail(modules), moduleName)

\* mutant of getModuleOrNull: the members are searched before the root
getModuleOrNull_membersFirst(ws, moduleName) ==
    IF find(ws.modules, moduleName) # None
    THEN find(ws.modules, moduleName)
    ELSE IF ws.root.declaration.name = moduleName THEN Some(ws.root) ELSE None

\* lines 110-116
getModuleOrNull(ws, moduleName) ==
    IF ws.root.declaration.name = moduleName
    THEN Some(ws.root)
    ELSE find(ws.modules, moduleName)

NoModuleError == "No module could be found in the workspace."

\* lines 121-128
getModule(ws, moduleName) ==
    LET module == getModuleOrNull(ws, moduleName)
    IN  IF module = None
        THEN ModuleThrew([ code |-> None, message |-> NoModuleError,
                           moduleName |-> moduleName ])
        ELSE ModuleReturned(module)

LookupNames == { MemberNames[1], MemberNames[2], RootName }

InitLookup ==
    LET \* a root and up to three members, the i-th in a directory i levels down
        LookupWorkspaces ==
            { [ root |-> DiscoveredModule(Cwd, [ name |-> r, workspaces |-> Some(<<WILD_MANY>>) ]),
                modules |-> [ i \in DOMAIN names |->
                                DiscoveredModule([ k \in 1..i |-> NameA ],
                                                 [ name |-> names[i], workspaces |-> None ]) ] ] :
                r \in LookupNames,
                names \in UNION { [ 1..n -> LookupNames ] : n \in 0..Len(MemberNames) } }
    IN
    /\ workspace \in LookupWorkspaces
    /\ call = NoCall
    /\ result = NoResult
    /\ graph = NoGraph
    /\ first = None
    /\ NoText
    /\ NoGlob
    /\ NoDiscover
    /\ NoRollup

CallGetModuleOrNull ==
    /\ call = NoCall
    /\ \E moduleName \in LookupNames \cup {MissingName} :
         /\ call' = [ fn |-> "getModuleOrNull", moduleName |-> moduleName ]
         /\ result' = ModuleReturned(getModuleOrNull(workspace, moduleName))
    /\ UNCHANGED <<workspace, graph, first, textVars, globVars, discoverVars, rollupVars>>

CallGetModule ==
    /\ call = NoCall
    /\ \E moduleName \in LookupNames \cup {MissingName} :
         /\ call' = [ fn |-> "getModule", moduleName |-> moduleName ]
         /\ result' = getModule(workspace, moduleName)
    /\ UNCHANGED <<workspace, graph, first, textVars, globVars, discoverVars, rollupVars>>

SpecLookup == InitLookup /\ [][CallGetModuleOrNull \/ CallGetModule]_vars

(***************************************************************************)
(* build() of rollup-util (BuildContext.ts, lines 72-257).  `build` holds  *)
(* the locals of the call and what it started: the tasks queued by the     *)
(* imported build configs (a bag of the nodes they belong to, while they   *)
(* run), the watchers of watch mode, the status kept by the reporter, and  *)
(* the global currentTasks and the working directory of the process.  The  *)
(* module found at cwd and the discovered workspace are inputs.  An action *)
(* is the code that runs from the completion of one awaited operation to   *)
(* the next await.                                                         *)
(***************************************************************************)
\* lines 238-249
singleTree(module) ==
    Returned(<<module>>, module, [ name \in {module} |-> NewNode(name) ])

\* lines 251-257: status.update(node, { kind: result, timeMs })
bundleFinished(b, node, kind) == [ b EXCEPT !.status[node] = kind ]

\* line 122, the loop goes on to its next node and awaits canAccessFile;
\* after the last node lines 215-235: the return and the finally block, or
\* in watch mode the wait for SIGINT
nextNode(b) ==
    IF b.index + 1 < Len(b.order)
    THEN [ b EXCEPT !.index = @ + 1, !.phase = "access", !.awaited = 0, !.targets = 0 ]
    ELSE IF b.isWatching
    THEN [ b EXCEPT !.index = @ + 1, !.phase = "watching", !.awaited = 0, !.targets = 0 ]
    ELSE [ b EXCEPT !.index = @ + 1, !.phase = "done", !.awaited = 0, !.targets = 0,
                    !.currentTasks = None, !.outcome = Some([ rejected |-> None ]) ]

\* mutant of catchFailure: the failure leaves build() through the finally block
catchFailure_rethrown(b, node) ==
    [ b EXCEPT !.phase = "done", !.caught = @ \cup {node}, !.currentTasks = None,
               !.outcome = Some([ rejected |-> Some("failure") ]) ]

\* lines 209-212: the catch block of the loop body
catchFailure(b, node) ==
    nextNode([ bundleFinished(b, node, "FAIL") EXCEPT !.caught = @ \cup {node} ])

\* lines 152-207, up to the first await: the targets the tasks returned are
\* bundled one after the other, or in watch mode each gets its watcher
afterTasks(b, node, targets) ==
    IF targets = 0
    THEN nextNode(b)
    ELSE IF b.isWatching
    THEN nextNode([ b EXCEPT !.watchers =
                      @ \o [ i \in 1..targets |->
                               [ node |-> node, bundling |-> FALSE, last |-> "none" ] ] ])
    ELSE [ bundleFinished(b, node, "BUSY") EXCEPT !.phase = "bundling", !.targets = targets ]

\* lines 72-100: build(cwd, args) was called; discoverModule(cwd) gives the
\* module `origin` or null, discoverWorkspace({ cwd }) the workspace or null
InitBuild ==
    /\ workspace \in
         { Workspace({ Entry(p[1], "dependencies", p[2], SpecWsAny) : p \in pairs }) :
             pairs \in { {},
                         { <<"A", "B">> },
                         { <<"A", "B">>, <<"B", "C">> },
                         { <<"A", "B">>, <<"A", "C">> },
                         { <<"A", "B">>, <<"B", "A">> } } }
    /\ call = NoCall
    /\ result = NoResult
    /\ graph = NoGraph
    /\ first = None
    /\ \E origin \in { None, Some("A"), Some("B"), Some(RootName) } :
         \E discovered, isWatching \in BOOLEAN :
            build = [ phase |-> "start", isWatching |-> isWatching, origin |-> origin,
                      discovered |-> discovered, order |-> <<>>, index |-> 0,
                      currentTasks |-> None, cwd |-> None, awaited |-> 0, targets |-> 0,
                      running |-> EmptyBag, status |-> <<>>, caught |-> {},
                      begun |-> <<>>, watchers |-> <<>>, events |-> 0, outcome |-> None ]
    /\ heap = [ objects |-> <<>>, sets |-> <<>> ]
    /\ invocation = [ count |-> 0 ]
    /\ NoText
    /\ NoGlob
    /\ NoDiscover

\* lines 102-119; what is thrown here leaves build() through the finally block
StartBuild ==
    /\ build.phase = "start"
    /\ IF build.origin = None
       THEN /\ build' = [ build EXCEPT !.phase = "done",
                                       !.outcome = Some([ rejected |-> Some("No module found") ]) ]
            /\ UNCHANGED <<call, result, graph>>
       ELSE LET options == Options(build.origin[1], None, Some(<<"build-logic">>), None)
                traversal == IF build.discovered
                             THEN getDependencies(workspace, options)
                             ELSE singleTree(build.origin[1])
            IN  /\ call' = IF build.discovered
                           THEN [ fn |-> "getDependencies", options |-> options ]
                           ELSE call
                /\ result' = traversal.result
                /\ graph' = traversal.graph
                /\ build' =
                     IF traversal.result.status # "returned"
                     THEN [ build EXCEPT !.phase = "done",
                                         !.outcome = Some([ rejected |->
                                                              Some(traversal.result.status) ]) ]
                     ELSE [ build EXCEPT !.phase = "access",
                                         !.order = traversal.result.buildOrder,
                                         !.status = [ n \in Range(traversal.result.buildOrder)
                                                        |-> "IDLE" ] ]
    /\ UNCHANGED <<workspace, first, heap, invocation, textVars, globVars, discoverVars>>

\* lines 122-141: canAccessFile(buildConfigPath) completed
BeginModule ==
    /\ build.phase = "access"
    /\ \E canAccess \in BOOLEAN :
         LET currentNode == build.order[build.index + 1]
             begun == [ build EXCEPT !.begun = Append(@, currentNode) ]
         IN  build' = IF canAccess
                      THEN [ begun EXCEPT !.phase = "import", !.currentTasks = Some(0),
                                          !.cwd = Some(currentNode) ]
                      ELSE nextNode(bundleFinished(begun, currentNode, "SKIP"))
    /\ UNCHANGED <<graphVars, heap, invocation, textVars, globVars, discoverVars>>

\* lines 143-152: the import of build.config.mjs completed; the config
\* queued its tasks with buildTask, and every task is started
ImportConfig ==
    /\ build.phase = "import"
    /\ \E imported \in BOOLEAN, queued \in 0..MaxTasks :
         LET currentNode == build.order[build.index + 1]
             pushed == [ build EXCEPT !.currentTasks = Some(queued) ]
         IN  build' = IF ~imported
                      THEN catchFailure(pushed, currentNode)
                      ELSE IF queued = 0
                      THEN afterTasks(pushed, currentNode, 0)
                      ELSE [ pushed EXCEPT !.phase = "tasks", !.awaited = queued,
                                           !.running = @ (+) [ n \in {currentNode} |-> queued ] ]
    /\ UNCHANGED <<graphVars, heap, invocation, textVars, globVars, discoverVars>>

\* a task settles: it returns its targets or rejects.  Lines 147-152:
\* Promise.all rejects with the first rejection and is fulfilled by the
\* last task; a task of a Promise.all that is settled changes nothing
TaskSettles ==
    /\ \E node \in BagToSet(build.running), rejected \in BOOLEAN, targets \in 0..1 :
         LET left == [ build EXCEPT !.running = @ (-) SetToBag({node}) ]
         IN  build' = IF build.phase = "tasks" /\ node = build.order[build.index + 1]
                      THEN ( IF rejected
                             THEN catchFailure(left, node)
                             ELSE IF build.awaited = 1
                             THEN afterTasks(left, node, build.targets + targets)
                             ELSE [ left EXCEPT !.awaited = @ - 1, !.targets = @ + targets ] )
                      ELSE left
    /\ UNCHANGED <<graphVars, heap, invocation, textVars, globVars, discoverVars>>

\* lines 197-206: rollup, the writes and the close of one target completed,
\* or one of them threw; the next target begins
BundleSettles ==
    /\ build.phase = "bundling"
    /\ \E bundled \in BOOLEAN :
         LET currentNode == build.order[build.index + 1]
             passed == bundleFinished(build, currentNode, "PASS")
         IN  build' = IF ~bundled
                      THEN catchFailure(build, currentNode)
                      ELSE IF build.targets = 1
                      THEN nextNode(passed)
                      ELSE [ bundleFinished(passed, currentNode, "BUSY") EXCEPT
                               !.targets = @ - 1 ]
    /\ UNCHANGED <<graphVars, heap, invocation, textVars, globVars, discoverVars>>

\* lines 177-194: a watcher emits an event; a bundle starts when none runs
\* and ends with BUNDLE_END or ERROR
WatcherEvent ==
    /\ build.phase # "done"
    /\ build.events < MaxEvents
    /\ \E i \in DOMAIN build.watchers, code \in { "BUNDLE_START", "BUNDLE_END", "ERROR" } :
         LET watcher == build.watchers[i]
         IN  /\ (code = "BUNDLE_START") = ~watcher.bundling
             /\ build' =
                  [ bundleFinished(build, watcher.node,
                                   CASE code = "BUNDLE_START" -> "BUSY"
                                     [] code = "BUNDLE_END" -> "PASS"
                                     [] code = "ERROR" -> "FAIL")
                    EXCEPT !.events = @ + 1,
                           !.watchers[i] = [ node |-> watcher.node,
                                             bundling |-> code = "BUNDLE_START",
                                             last |-> code ] ]
    /\ UNCHANGED <<graphVars, heap, invocation, textVars, globVars, discoverVars>>

\* lines 220-235: SIGINT closes the watchers; the finally block
Sigint ==
    /\ build.phase = "watching"
    /\ build' = [ build EXCEPT !.phase = "done", !.currentTasks = None,
                               !.outcome = Some([ rejected |-> None ]) ]
    /\ UNCHANGED <<graphVars, heap, invocation, textVars, globVars, discoverVars>>

SpecBuild ==
    /\ InitBuild
    /\ [][ \/ StartBuild
           \/ BeginModule
           \/ ImportConfig
           \/ TaskSettles
           \/ BundleSettles
           \/ WatcherEvent
           \/ Sigint ]_vars

(***************************************************************************)
(* Entities of rollup-util (Entity.ts, TargetDeclaration.ts).  An object   *)
(* is named by its position in heap.objects, a Set object by its position  *)
(* in heap.sets; a property that holds a Set holds its position, and the   *)
(* spread `{ ...this }` copies positions as it copies references.  A       *)
(* configurator made by enable, disable or configure is the sequence of    *)
(* the wrappers around the default, innermost first.  `invocation` is the  *)
(* last method call: its receiver, its argument and what it returned.      *)
(***************************************************************************)
\* Entity.ts lines 47-62: the properties of `base` replace the defaults
createEntity(name, base) ==
    base @@ [ name |-> name, isFinal |-> FALSE, getEnabled |-> <<>>, getConfig |-> <<>>,
              finalize |-> "Entity.onFinalize", suppressed |-> None, entries |-> None ]

\* TargetDeclaration.ts lines 65-82: the entity handed to `block`; its Set
\* is the object heap.sets[suppressed]
declareTarget(name, suppressed) ==
    createEntity(name, [ suppressed |-> Some(suppressed),
                         finalize |-> "TargetDeclaration.onFinalize" ])

\* a plugin-like entity without base properties and a declared target
InitEntity ==
    /\ heap = [ objects |-> << createEntity("entity", <<>>), declareTarget("target", 1) >>,
                sets |-> << {} >> ]
    /\ invocation = [ count |-> 0, method |-> "none", receiver |-> 0, returned |-> 0,
                      argument |-> "none" ]
    /\ build = [ phase |-> "none" ]
    /\ NoGraphCall
    /\ NoText
    /\ NoGlob
    /\ NoDiscover

\* Entity.ts lines 72-81
Finalize ==
    /\ invocation.count < MaxCalls
    /\ \E this \in DOMAIN heap.objects :
         /\ heap.objects[this].finalize = "Entity.onFinalize"
         /\ heap' = IF heap.objects[this].isFinal
                    THEN heap
                    ELSE [ heap EXCEPT !.objects =
                             Append(@, [ @[this] EXCEPT !.isFinal = TRUE ]) ]
         /\ invocation' = [ count |-> invocation.count + 1, method |-> "finalize",
                            receiver |-> this, argument |-> "none",
                            returned |-> IF heap.objects[this].isFinal
                                         THEN this
                                         ELSE Len(heap.objects) + 1 ]
    /\ UNCHANGED <<build, graphVars, textVars, globVars, discoverVars>>

\* TargetDeclaration.ts lines 84-95 (the pipeline container is left out)
FinalizeTarget ==
    /\ invocation.count < MaxCalls
    /\ \E this \in DOMAIN heap.objects :
         /\ heap.objects[this].finalize = "TargetDeclaration.onFinalize"
         /\ heap' = [ heap EXCEPT !.objects =
                        Append(@, [ @[this] EXCEPT !.isFinal = TRUE,
                                                   !.entries = Some(<<>>) ]) ]
         /\ invocation' = [ count |-> invocation.count + 1, method |-> "finalize",
                            receiver |-> this, argument |-> "none",
                            returned |-> Len(heap.objects) + 1 ]
    /\ UNCHANGED <<build, graphVars, textVars, globVars, discoverVars>>

\* mutant of Enable: the receiver is updated whether final or not
Enable_inPlace ==
    /\ invocation.count < MaxCalls
    /\ \E this \in DOMAIN heap.objects, configurator \in { "defaultGetEnabled", "inEnv" } :
         /\ heap' = [ heap EXCEPT !.objects[this].getEnabled =
                        Append(@, [ wrapper |-> "onEnable", configurator |-> configurator ]) ]
         /\ invocation' = [ count |-> invocation.count + 1, method |-> "enable",
                            receiver |-> this, argument |-> configurator,
                            returned |-> this ]
    /\ UNCHANGED <<build, graphVars, textVars, globVars, discoverVars>>

\* Entity.ts lines 83-101
Enable ==
    /\ invocation.count < MaxCalls
    /\ \E this \in DOMAIN heap.objects, configurator \in { "defaultGetEnabled", "inEnv" } :
         LET wrapped == Append(heap.objects[this].getEnabled,
                            [ wrapper |-> "onEnable", configurator |-> configurator ])
         IN  /\ heap' = IF heap.objects[this].isFinal
                        THEN [ heap EXCEPT !.objects[this].getEnabled = wrapped ]
                        ELSE [ heap EXCEPT !.objects =
                                 Append(@, [ @[this] EXCEPT !.getEnabled = wrapped ]) ]
             /\ invocation' = [ count |-> invocation.count + 1, method |-> "enable",
                                receiver |-> this, argument |-> configurator,
                                returned |-> IF heap.objects[this].isFinal
                                             THEN this
                                             ELSE Len(heap.objects) + 1 ]
    /\ UNCHANGED <<build, graphVars, textVars, globVars, discoverVars>>

\* Entity.ts lines 103-121
Disable ==
    /\ invocation.count < MaxCalls
    /\ \E this \in DOMAIN heap.objects, configurator \in { "defaultGetEnabled", "inEnv" } :
         LET wrapped == Append(heap.objects[this].getEnabled,
                            [ wrapper |-> "onDisable", configurator |-> configurator ])
         IN  /\ heap' = IF heap.objects[this].isFinal
                        THEN [ heap EXCEPT !.objects[this].getEnabled = wrapped ]
                        ELSE [ heap EXCEPT !.objects =
                                 Append(@, [ @[this] EXCEPT !.getEnabled = wrapped ]) ]
             /\ invocation' = [ count |-> invocation.count + 1, method |-> "disable",
                                receiver |-> this, argument |-> configurator,
                                returned |-> IF heap.objects[this].isFinal
                                             THEN this
                                             ELSE Len(heap.objects) + 1 ]
    /\ UNCHANGED <<build, graphVars, textVars, globVars, discoverVars>>

\* Entity.ts lines 123-141
Configure ==
    /\ invocation.count < MaxCalls
    /\ \E this \in DOMAIN heap.objects, configurator \in { "configurator" } :
         LET wrapped == Append(heap.objects[this].getConfig,
                            [ wrapper |-> "onConfigure", configurator |-> configurator ])
         IN  /\ heap' = IF heap.objects[this].isFinal
                        THEN [ heap EXCEPT !.objects[this].getConfig = wrapped ]
                        ELSE [ heap EXCEPT !.objects =
                                 Append(@, [ @[this] EXCEPT !.getConfig = wrapped ]) ]
             /\ invocation' = [ count |-> invocation.count + 1, method |-> "configure",
                                receiver |-> this, argument |-> configurator,
                                returned |-> IF heap.objects[this].isFinal
                                             THEN this
                                             ELSE Len(heap.objects) + 1 ]
    /\ UNCHANGED <<build, graphVars, textVars, globVars, discoverVars>>

\* TargetDeclaration.ts lines 129-135
Suppress ==
    /\ invocation.count < MaxCalls
    /\ \E this \in DOMAIN heap.objects, code \in { "EVAL", "CIRCULAR_DEPENDENCY" } :
         /\ heap.objects[this].suppressed # None
         /\ heap' = [ heap EXCEPT !.sets[heap.objects[this].suppressed[1]] = @ \cup {code} ]
         /\ invocation' = [ count |-> invocation.count + 1, method |-> "suppress",
                            receiver |-> this, argument |-> code, returned |-> this ]
    /\ UNCHANGED <<build, graphVars, textVars, globVars, discoverVars>>

SpecEntity ==
    /\ InitEntity
    /\ [][ \/ Finalize
           \/ FinalizeTarget
           \/ Enable
           \/ Disable
           \/ Configure
           \/ Suppress ]_vars

(***************************************************************************)
(* What the claims speak of, read off the workspace and the options alone  *)
(***************************************************************************)
Names(ws) == { ws.modules[i].declaration.name : i \in DOMAIN ws.modules }

DeclarationOf(ws, name) ==
    (CHOOSE m \in Range(ws.modules) : m.declaration.name = name).declaration

ExcludedNames(options) ==
    IF options.exclude = None THEN {} ELSE Range(options.exclude[1])

SelectedMaps(options) ==
    IF options.dependencyMaps = None
    THEN {"dependencies", "devDependencies", "peerDependencies"}
    ELSE Range(options.dependencyMaps[1])

\* the specifier begins with the ten characters w o r k s p a c e :
HasLinkPrefix(spec) ==
    /\ Len(spec) >= 10
    /\ \A i \in 1..10 : spec[i] = WORKSPACE_PREFIX[i]

\* u lists v with a local-link specifier in one of the selected maps
DeclaredLink(ws, options, u, v) ==
    \E key \in SelectedMaps(options) :
        LET map == DeclarationOf(ws, u)[key]
        IN  /\ map # None
            /\ v \in DOMAIN map[1]
            /\ HasLinkPrefix(map[1][v])

\* the selected intra-workspace dependency edges u -> v (u depends on v)
Edges(ws, options) ==
    { e \in (Names(ws) \ ExcludedNames(options)) \X (Names(ws) \ ExcludedNames(options)) :
        DeclaredLink(ws, options, e[1], e[2]) }

Inverse(E) == { <<e[2], e[1]>> : e \in E }

\* the relation a traversal function follows
Relation(fn, ws, options) ==
    IF fn = "getDependents" THEN Inverse(Edges(ws, options)) ELSE Edges(ws, options)

Successors(E, S) == { e[2] : e \in { d \in E : d[1] \in S } }

\* the nodes reachable from S over zero or more edges
RECURSIVE ReachStar(_, _)
ReachStar(E, S) ==
    LET T == S \cup Successors(E, S)
    IN  IF T = S THEN S ELSE ReachStar(E, T)

\* the nodes reachable from n over one or more edges
ReachPlus(E, n) == ReachStar(E, Successors(E, {n}))

OnCycle(E, n) == n \in ReachPlus(E, n)

Acyclic(E) == \A e \in E : ~OnCycle(E, e[1])

CycleReachable(E, origin) == \E n \in ReachStar(E, {origin}) : OnCycle(E, n)

NoDuplicates(seq) == \A i, j \in DOMAIN seq : i # j => seq[i] # seq[j]

IndexOf(seq, x) == CHOOSE i \in DOMAIN seq : seq[i] = x

Reverse(seq) == [ i \in 1..Len(seq) |-> seq[Len(seq) + 1 - i] ]

IsTraversal == call.fn \in {"getDependencies", "getDependents"}

\* the nodes a returned result hands to the caller
ReturnedNodes == Range(result.buildOrder) \cup Range(result.root)

(***************************************************************************)
(* C1: on an acyclic selected dependency graph, getDependencies returns    *)
(* every module reachable from the origin exactly once and no module that  *)
(* is not reachable, and for every edge u -> v between returned modules v  *)
(* stands before u.  (The origin itself is listed unless includeSelf is    *)
(* false.)                                                                 *)
(***************************************************************************)
C1_DependencyFirstOrder ==
    ( /\ call.fn = "getDependencies"
      /\ call.options.moduleName \in Names(workspace)
      /\ Acyclic(Edges(workspace, call.options)) )
    => LET E == Edges(workspace, call.options)
           origin == call.options.moduleName
           order == result.buildOrder
       IN  /\ result.status = "returned"
           /\ NoDuplicates(order)
           /\ ReachPlus(E, origin) \subseteq Range(order)
           /\ Range(order) \subseteq ReachStar(E, {origin})
           /\ call.options.includeSelf # Some(FALSE) => origin \in Range(order)
           /\ \A e \in E :
                (e[1] \in Range(order) /\ e[2] \in Range(order))
                => IndexOf(order, e[2]) < IndexOf(order, e[1])

\* a module that two returned modules depend on was reached twice and listed once
C1_Witness ==
    /\ call.fn = "getDependencies"
    /\ Acyclic(Edges(workspace, call.options))
    /\ result.status = "returned"
    /\ Len(result.buildOrder) = 3
    /\ \E v \in Range(result.buildOrder) :
         Cardinality({ e \in Edges(workspace, call.options) : e[2] = v }) = 2

(***************************************************************************)
(* C2: on an acyclic graph the sequence returned by getDependents is the   *)
(* reverse of the sequence the dependency-first traversal returns on the   *)
(* graph whose nodes have their dependencies and dependents lists swapped. *)
(***************************************************************************)
Inverted(g) ==
    [ name \in DOMAIN g |->
        [ g[name] EXCEPT !.dependencies = g[name].dependents,
                         !.dependents = g[name].dependencies ] ]

C2_DependentsIsReversedInverse ==
    ( /\ call.fn = "getDependents"
      /\ call.options.moduleName \in Names(workspace)
      /\ Acyclic(Edges(workspace, call.options)) )
    => /\ result.status = "returned"
       /\ result.buildOrder =
            Reverse(traverse(Inverted(buildGraph(workspace, call.options)),
                             call.options.moduleName, "dependencies", "push",
                             call.options).result.buildOrder)

C2_Witness ==
    /\ call.fn = "getDependents"
    /\ Acyclic(Edges(workspace, call.options))
    /\ result.status = "returned"
    /\ Len(result.buildOrder) = 3
    /\ result.buildOrder # Reverse(result.buildOrder)

(***************************************************************************)
(* C3: a traversal throws the cycle error exactly when a cycle of the      *)
(* relation it follows (a self-dependency included) is reachable from the  *)
(* origin; a call that throws returns nothing, and a cycle that the origin *)
(* does not reach does not make the call fail.                             *)
(***************************************************************************)
C3_CycleErrorIffReachableCycle ==
    (IsTraversal /\ call.options.moduleName \in Names(workspace))
    => LET R == Relation(call.fn, workspace, call.options)
       IN  /\ result.status \in {"returned", "cycle"}
           /\ result.status = "cycle" <=> CycleReachable(R, call.options.moduleName)
           /\ result.status = "cycle" => (result.buildOrder = <<>> /\ result.root = None)

\* the origin is not on the cycle it reaches
C3_Witness ==
    /\ IsTraversal
    /\ result.status = "cycle"
    /\ ~OnCycle(Relation(call.fn, workspace, call.options), call.options.moduleName)

(***************************************************************************)
(* C4 (as claimed): the chain of the cycle error lists the modules of the  *)
(* detected cycle, each once, starting with the module that was reached    *)
(* again while being visited, and every name is followed by the module it  *)
(* has an edge to in the traversed relation, the last leading back to the  *)
(* first.                                                                  *)
(***************************************************************************)
C4_ChainAlongTraversal ==
    (IsTraversal /\ result.status = "cycle")
    => LET R == Relation(call.fn, workspace, call.options)
           chain == result.cycleInfo
       IN  /\ chain # <<>>
           /\ NoDuplicates(chain)
           /\ result.cycleStart = Some(chain[1])
           /\ \A i \in 1..(Len(chain) - 1) : <<chain[i], chain[i + 1]>> \in R
           /\ <<chain[Len(chain)], chain[1]>> \in R

(***************************************************************************)
(* C4 (amended): the chain lists the modules of the detected cycle, each   *)
(* once, starting with the module that was reached again while being       *)
(* visited, and every name is followed by the module that has an edge TO   *)
(* it in the traversed relation (the chain runs against the traversed      *)
(* edges), the first having an edge to the last.                           *)
(***************************************************************************)
C4_ChainAgainstTraversal ==
    (IsTraversal /\ result.status = "cycle")
    => LET R == Relation(call.fn, workspace, call.options)
           chain == result.cycleInfo
       IN  /\ chain # <<>>
           /\ NoDuplicates(chain)
           /\ result.cycleStart = Some(chain[1])
           /\ \A i \in 1..(Len(chain) - 1) : <<chain[i + 1], chain[i]>> \in R
           /\ <<chain[1], chain[Len(chain)]>> \in R
           /\ \A i \in DOMAIN chain : graph[chain[i]].visiting

\* a cycle of three modules was reported
C4_Witness ==
    /\ IsTraversal
    /\ result.status = "cycle"
    /\ Len(result.cycleInfo) = 3

(***************************************************************************)
(* C5: getDependencies(Y) with exclude = [X], X # Y: X is not in           *)
(* buildOrder, no returned node lists X, and a module Z is in buildOrder   *)
(* exactly when a path of selected dependency edges that does not pass     *)
(* through X leads from Y to Z.                                            *)
(***************************************************************************)
C5_ExcludeCutsPaths ==
    ( /\ call.fn = "getDependencies"
      /\ result.status = "returned"
      /\ call.options.exclude # None
      /\ call.options.moduleName \notin ExcludedNames(call.options) )
    => LET X == ExcludedNames(call.options)
           Y == call.options.moduleName
           all == Edges(workspace, [ call.options EXCEPT !.exclude = None ])
           avoiding == { e \in all : e[1] \notin X /\ e[2] \notin X }
           order == result.buildOrder
       IN  /\ X \cap Range(order) = {}
           /\ \A n \in ReturnedNodes :
                X \cap (Range(graph[n].dependencies) \cup Range(graph[n].dependents)) = {}
           /\ \A Z \in Names(workspace) \ {Y} :
                Z \in Range(order) <=> Z \in ReachStar(avoiding, {Y})
           /\ call.options.includeSelf # Some(FALSE) => Y \in Range(order)

\* Z was reachable from Y only through the excluded X, and is gone
C5_Witness ==
    /\ call.fn = "getDependencies"
    /\ result.status = "returned"
    /\ call.options.exclude # None
    /\ call.options.moduleName \notin ExcludedNames(call.options)
    /\ \E Z \in Names(workspace) \ ExcludedNames(call.options) :
         /\ Z \in ReachStar(Edges(workspace, [ call.options EXCEPT !.exclude = None ]),
                            {call.options.moduleName})
         /\ Z \notin Range(result.buildOrder)
         /\ Z # call.options.moduleName

(***************************************************************************)
(* C6 (as claimed): excluded names are skipped entirely, so no excluded    *)
(* module appears in the returned buildOrder, as the returned root, or in  *)
(* a returned node's dependencies or dependents, also when moduleName is   *)
(* itself excluded.                                                        *)
(***************************************************************************)
C6_ExcludedNeverReturned ==
    (IsTraversal /\ result.status = "returned")
    => /\ ExcludedNames(call.options) \cap ReturnedNodes = {}
       /\ \A n \in ReturnedNodes :
            ExcludedNames(call.options)
              \cap (Range(graph[n].dependencies) \cup Range(graph[n].dependents)) = {}

(***************************************************************************)
(* C7 (as claimed): for every includeSelf setting, every node of           *)
(* buildOrder and the returned root list, as dependencies and dependents,  *)
(* only nodes of buildOrder.                                               *)
(***************************************************************************)
C7_SelfContained ==
    (IsTraversal /\ result.status = "returned")
    => \A n \in ReturnedNodes :
         Range(graph[n].dependencies) \cup Range(graph[n].dependents)
           \subseteq Range(result.buildOrder)

(***************************************************************************)
(* C8 (as claimed): among the nodes a traversal returns (buildOrder and    *)
(* root, for every includeSelf and exclude setting) A is in                *)
(* B.dependencies exactly when B is in A.dependents.                       *)
(***************************************************************************)
C8_MutualLists ==
    (IsTraversal /\ result.status = "returned")
    => \A a, b \in ReturnedNodes :
         a \in Range(graph[b].dependencies) <=> b \in Range(graph[a].dependents)

(***************************************************************************)
(* C9: buildGraph adds the edge u -> v exactly when u and v are both       *)
(* non-excluded members and v's name is a key of one of the selected maps  *)
(* of u whose specifier starts with "workspace:"; any other specifier, or  *)
(* a name that is no member, gives no edge.                                *)
(***************************************************************************)
C9_EdgeIffDeclaredLink ==
    call.fn = "buildGraph"
    => /\ DOMAIN graph = Names(workspace)
       /\ \A u \in DOMAIN graph :
            /\ Range(graph[u].dependencies) \subseteq DOMAIN graph
            /\ Range(graph[u].dependents) \subseteq DOMAIN graph
       /\ \A u, v \in DOMAIN graph :
            /\ v \in Range(graph[u].dependencies)
                 <=> <<u, v>> \in Edges(workspace, call.options)
            /\ u \in Range(graph[v].dependents)
                 <=> <<u, v>> \in Edges(workspace, call.options)

\* an edge that comes from a "workspace:^" entry of devDependencies
C9_Witness ==
    /\ call.fn = "buildGraph"
    /\ \E u, v \in DOMAIN graph :
         /\ v \in Range(graph[u].dependencies)
         /\ DeclarationOf(workspace, u).devDependencies # None
         /\ DeclarationOf(workspace, u).dependencies = None

Without(seq, x) == SelectSeq(seq, LAMBDA n : n # x)

WithSelf(fn, ws, options) ==
    LET included == [ options EXCEPT !.includeSelf = Some(TRUE) ]
    IN  IF fn = "getDependents"
        THEN getDependents(ws, included).result
        ELSE getDependencies(ws, included).result

C11_OriginPlacement ==
    (IsTraversal /\ result.status = "returned")
    => LET origin == call.options.moduleName
           order == result.buildOrder
       IN  IF call.options.includeSelf = Some(FALSE)
           THEN /\ origin \notin Range(order)
                /\ WithSelf(call.fn, workspace, call.options).status = "returned"
                /\ order = Without(WithSelf(call.fn, workspace, call.options).buildOrder,
                                   origin)
           ELSE /\ order # <<>>
                /\ call.fn = "getDependencies" => order[Len(order)] = origin
                /\ call.fn = "getDependents" => order[1] = origin
                /\ Cardinality({ i \in DOMAIN order : order[i] = origin }) = 1

\* the origin was left out of an order that keeps two other modules
C11_Witness ==
    /\ IsTraversal
    /\ result.status = "returned"
    /\ call.options.includeSelf = Some(FALSE)
    /\ Len(result.buildOrder) = 2
    /\ call.options.moduleName \notin Range(result.buildOrder)

(***************************************************************************)
(* C12: in the order getDependents returns, for every edge u -> v (u       *)
(* depends on v) between two returned modules, v stands before u.          *)
(***************************************************************************)
C12_DependentsAfterDependencies ==
    (call.fn = "getDependents" /\ result.status = "returned")
    => LET order == result.buildOrder
       IN  \A e \in Edges(workspace, call.options) :
             (e[1] \in Range(order) /\ e[2] \in Range(order))
             => IndexOf(order, e[2]) < IndexOf(order, e[1])

\* a returned module that depends on two returned modules
C12_Witness ==
    /\ call.fn = "getDependents"
    /\ result.status = "returned"
    /\ Len(result.buildOrder) = 3
    /\ \E u \in Range(result.buildOrder) :
         Cardinality({ e \in Edges(workspace, call.options) :
                         e[1] = u /\ e[2] \in Range(result.buildOrder) }) = 2

(***************************************************************************)
(* C15 (as claimed): every pattern without a wildcard marker compiles to   *)
(* exactly one Static segment, whose value equals the pattern up to        *)
(* separator normalization.                                                *)
(***************************************************************************)
IsSeparator(c) == c = "/" \/ c = "\\"

HasMarker(string) == \E i \in DOMAIN string : string[i] \in {"?", "*"}

HasGroup(string) == \E i \in DOMAIN string : string[i] = "["

HasSeparator(string) == \E i \in DOMAIN string : IsSeparator(string[i])

\* a string up to separator normalization: whether it begins with a
\* separator, and its non-empty components
RECURSIVE ComponentsFrom(_, _, _)
ComponentsFrom(string, i, current) ==
    IF i > Len(string)
    THEN ( IF current = <<>> THEN <<>> ELSE <<current>> )
    ELSE IF IsSeparator(string[i])
         THEN ( IF current = <<>> THEN <<>> ELSE <<current>> )
              \o ComponentsFrom(string, i + 1, <<>>)
         ELSE ComponentsFrom(string, i + 1, Append(current, string[i]))

Normalized(string) ==
    [ rooted |-> string # <<>> /\ IsSeparator(string[1]),
      components |-> ComponentsFrom(string, 1, <<>>) ]

IsStatic(segment) == segment.resolve = "resolveStaticSegment"

\* the values of Static segments, a separator between them
RECURSIVE Joined(_)
Joined(segments) ==
    IF segments = <<>>
    THEN <<>>
    ELSE IF Len(segments) = 1
         THEN segments[1].segment
         ELSE segments[1].segment \o <<"/">> \o Joined(Tail(segments))

C15_SingleStaticSegment ==
    (parsed # None /\ ~HasMarker(patternText))
    => /\ parsed[1].error = None
       /\ Len(parsed[1].glob) = 1
       /\ IsStatic(parsed[1].glob[1])
       /\ Normalized(parsed[1].glob[1].segment) = Normalized(patternText)

(***************************************************************************)
(* C15 (amended): every pattern without a wildcard marker and without `[`  *)
(* compiles to Static segments only, whose values joined by the separator  *)
(* equal the pattern up to separator normalization; it is exactly one      *)
(* segment, equal to the pattern, when the pattern is not empty and holds  *)
(* no separator.                                                           *)
(***************************************************************************)
C15_StaticSegmentsRoundTrip ==
    (parsed # None /\ ~HasMarker(patternText) /\ ~HasGroup(patternText))
    => /\ parsed[1].error = None
       /\ \A i \in DOMAIN parsed[1].glob : IsStatic(parsed[1].glob[i])
       /\ Normalized(Joined(parsed[1].glob)) = Normalized(patternText)
       /\ (patternText # <<>> /\ ~HasSeparator(patternText))
            => parsed[1].glob = <<StaticSegment(patternText)>>

\* a pattern of two components, the first after an initial separator
C15_Witness ==
    /\ parsed # None
    /\ ~HasMarker(patternText)
    /\ parsed[1].error = None
    /\ Len(parsed[1].glob) = 2
    /\ Normalized(patternText).rooted

(***************************************************************************)
(* C13: matchesPattern returns true if and only if the whole name can be   *)
(* split so that each literal part equals its piece, each `?` covers       *)
(* exactly one character and each `*` covers zero or more characters.      *)
(***************************************************************************)
\* the parts from the i-th on can be laid over the name from offset j on
RECURSIVE CanSplit(_, _, _, _)
CanSplit(partList, i, name, j) ==
    IF i > Len(partList)
    THEN j = Len(name)
    ELSE IF partList[i] = <<"?">>
         THEN j < Len(name) /\ CanSplit(partList, i + 1, name, j + 1)
         ELSE IF partList[i] = <<"*">>
              THEN \E k \in j..Len(name) : CanSplit(partList, i + 1, name, k)
              ELSE /\ j + Len(partList[i]) <= Len(name)
                   /\ SubSeq(name, j + 1, j + Len(partList[i])) = partList[i]
                   /\ CanSplit(partList, i + 1, name, j + Len(partList[i]))

C13_MatchesIffSplit ==
    matched # None
    => /\ ~matched[1].thrown
       /\ matched[1].value <=> CanSplit(matchParts, 1, matchInput, 0)

(***************************************************************************)
(* What the claims on resolveGlob speak of                                 *)
(***************************************************************************)
HasRecursive(string) ==
    \E i \in 1..(Len(string) - 1) : string[i] = "*" /\ string[i + 1] = "*"

Started == promise.state # "none"

InFlight == BagCardinality(inflight)

\* the tree without the given paths and all that lies below them
TreeWithout(fsTree, gone) ==
    [ q \in { r \in DOMAIN fsTree : Prefixes(r) \cap gone = {} } |-> fsTree[q] ]

Exists(fsTree, path) == path = Cwd \/ path \in DOMAIN fsTree

IsDir(fsTree, path) == path = Cwd \/ (path \in DOMAIN fsTree /\ fsTree[path] = "directory")

\* the paths base/e(i)/.../e(n) with every e(j) satisfying segment j and
\* every entry before the last a directory
RECURSIVE Satisfying(_, _, _, _)
Satisfying(fsTree, segments, i, bases) ==
    IF i > Len(segments)
    THEN bases
    ELSE LET isLast == i = Len(segments)
             fits(q) == Exists(fsTree, q) /\ (isLast \/ IsDir(fsTree, q))
             step == IF IsStatic(segments[i])
                     THEN { q \in { join(b, segments[i].segment) : b \in bases } :
                              fits(q) }
                     ELSE { q \in DOMAIN fsTree :
                              /\ parentOf(q) \in bases
                              /\ fits(q)
                              /\ CanSplit(segments[i].pattern, 1, q[Len(q)], 0) }
         IN  Satisfying(fsTree, segments, i + 1, step)

Expected(fsTree, segments) ==
    IF Exists(fsTree, Cwd) THEN Satisfying(fsTree, segments, 1, {Cwd}) ELSE {}

(***************************************************************************)
(* C14: a pattern with two consecutive `*` or with a `[` makes resolveGlob *)
(* reject with the unsupported-pattern error, and no stat or readdir is    *)
(* ever launched for the call.                                             *)
(***************************************************************************)
C14_UnsupportedRejectedBeforeAccess ==
    (Started /\ (HasRecursive(patternText) \/ HasGroup(patternText)))
    => /\ promise.state = "rejected"
       /\ promise.reason \in { Some(PlainError(RecursiveWildcardError)),
                               Some(PlainError(GroupWildcardError)) }
       /\ ~HasGroup(patternText) => promise.reason[1].message = RecursiveWildcardError
       /\ ~HasRecursive(patternText) => promise.reason[1].message = GroupWildcardError
       /\ trace.launched = 0
       /\ inflight = EmptyBag
       /\ results = <<>>

\* the group stands in the second component, behind a wildcard that would
\* have listed a directory holding entries
C14_Witness ==
    /\ promise.state = "rejected"
    /\ HasGroup(patternText)
    /\ patternText[1] = "*"
    /\ <<NameA>> \in DOMAIN tree
    /\ faults = NoFaults

(***************************************************************************)
(* C16 (as claimed): on a tree without file system errors resolveGlob      *)
(* resolves, and to exactly the paths cwd/e1/.../en whose entries satisfy  *)
(* the segments, every entry before the last a directory: the call never   *)
(* rejects, is never left pending with no operation in flight, and the     *)
(* list it resolves to holds exactly those paths.                          *)
(***************************************************************************)
C16_ResolvesToSatisfyingPaths ==
    (Started /\ faults = NoFaults /\ parseGlob(patternText).error = None)
    => /\ promise.state # "rejected"
       /\ promise.state = "pending" => inflight # EmptyBag
       /\ promise.state = "fulfilled"
            => Range(promise.value) = Expected(tree, glob)

(***************************************************************************)
(* C17: at every moment of a resolveGlob call the operations launched and  *)
(* not yet completed are at most maxConcurrency (the value the call works  *)
(* with, line 27), and the in-flight counter is not negative.              *)
(***************************************************************************)
C17_InFlightBounded ==
    /\ InFlight <= maxConcurrencyOf(globOptions)
    /\ concurrency >= 0

\* the cap holds a frame back: one operation in flight, a frame waiting
C17_Witness ==
    /\ promise.state = "pending"
    /\ maxConcurrencyOf(globOptions) = 1
    /\ InFlight = 1
    /\ Len(stack) >= 1

(***************************************************************************)
(* C18 (as claimed): once the promise is rejected the call launches no     *)
(* further file system operation, whatever completes afterwards.           *)
(***************************************************************************)
C18_NoLaunchAfterRejection ==
    [][promise.state = "rejected" => trace'.launched = trace.launched]_vars

(***************************************************************************)
(* C19: an operation that fails with ENOENT pushes no frame, records no    *)
(* match, releases its slot and does not reject the promise, while the     *)
(* frames that wait are taken up as usual; and a call that resolves        *)
(* resolves to the paths satisfying the pattern in the tree without the    *)
(* paths that failed with ENOENT.                                          *)
(***************************************************************************)
\* the frames taken off the stack by a step
Popped == SubSeq(stack, Len(stack') + 1, Len(stack))

C19_MissingPathSwallowed ==
    [][ /\ trace'.enoent # trace.enoent
          => /\ Len(stack') <= Len(stack)
             /\ stack' = SubSeq(stack, 1, Len(stack'))
             /\ Len(results) <= Len(results')
             /\ SubSeq(results', 1, Len(results)) = results
             /\ \A i \in (Len(results) + 1)..Len(results') :
                  \E j \in DOMAIN Popped :
                      Popped[j] = GlobMatch(Len(glob), results'[i])
             /\ concurrency' = concurrency - 1 + (trace'.launched - trace.launched)
             /\ trace'.launched - trace.launched
                  = Cardinality({ j \in DOMAIN Popped : Popped[j].index < Len(glob) })
             /\ trace'.onReject = trace.onReject
             /\ promise'.state # "rejected" \/ promise.state = "rejected"
        /\ (promise'.state = "fulfilled" /\ promise.state = "pending")
          => Range(promise'.value)
               = Expected(TreeWithout(tree, trace'.enoent), glob') ]_vars

\* a directory that is listed fails with ENOENT when it is read, and the call
\* resolves to a match found in another directory
C19_Witness ==
    /\ promise.state = "fulfilled"
    /\ \E q \in trace.enoent : q \in DOMAIN tree
    /\ Len(promise.value) >= 1

(***************************************************************************)
(* C20 (as claimed): a resolveGlob call whose operations all complete      *)
(* settles; it is never pending with an empty stack and nothing in flight. *)
(***************************************************************************)
C20_NeverPendingAtRest ==
    ~( /\ promise.state = "pending"
       /\ stack = <<>>
       /\ inflight = EmptyBag )

(***************************************************************************)
(* C21: resolveGlob calls its resolve callback at most once, never after a *)
(* rejection, and only when no operation is in flight and the stack is     *)
(* empty, so that the list resolved to holds every match recorded.         *)
(***************************************************************************)
C21_ResolvedOnceAtRest ==
    /\ trace.onResolve <= 1
    /\ promise.state = "fulfilled" <=> trace.onResolve = 1
    /\ trace.onResolve = 1
         => /\ trace.onReject = 0
            /\ inflight = EmptyBag
            /\ stack = <<>>
            /\ concurrency = 0
            /\ promise.value = results

\* the call resolved after two operations were in flight together
C21_Witness ==
    /\ trace.onResolve = 1
    /\ trace.launched >= 3
    /\ Len(promise.value) >= 1
    /\ maxConcurrencyOf(globOptions) >= 2

(***************************************************************************)
(* C28 (as claimed): while a resolveGlob call has not rejected, after      *)
(* every completion handler either the operations in flight are           *)
(* maxConcurrency or the stack is empty: no slot is idle while a frame     *)
(* waits.                                                                  *)
(***************************************************************************)
C28_WorkConserving ==
    (Started /\ promise.state # "rejected")
    => \/ InFlight = maxConcurrencyOf(globOptions)
       \/ stack = <<>>

(***************************************************************************)
(* C29 (as claimed): a pattern that compiles yields one segment for each   *)
(* non-empty component, in order: a component with `?` or `*` gives a      *)
(* Wildcard segment whose parts concatenated are the component's text,     *)
(* every marker a part of its own, every literal part non-empty and free   *)
(* of separators; any other component gives a Static segment equal to the  *)
(* component's text.                                                       *)
(***************************************************************************)
RECURSIVE Concatenated(_)
Concatenated(strings) ==
    IF strings = <<>> THEN <<>> ELSE Head(strings) \o Concatenated(Tail(strings))

IsWildcard(segment) == segment.resolve = "resolveWildcardSegment"

C29_SegmentPerComponent ==
    (parsed # None /\ parsed[1].error = None)
    => LET components == Normalized(patternText).components
           segments == parsed[1].glob
       IN  /\ Len(segments) = Len(components)
           /\ \A i \in DOMAIN segments :
                IF HasMarker(components[i])
                THEN /\ IsWildcard(segments[i])
                     /\ Concatenated(segments[i].pattern) = components[i]
                     /\ \A k \in DOMAIN segments[i].pattern :
                          LET part == segments[i].pattern[k]
                          IN  /\ part # <<>>
                              /\ ~HasSeparator(part)
                              /\ HasMarker(part) => Len(part) = 1
                ELSE /\ IsStatic(segments[i])
                     /\ segments[i].segment = components[i]

(***************************************************************************)
(* What the discovery claims speak of, read off the disk and the options   *)
(***************************************************************************)
ManifestPath(dir) == Append(dir, PACKAGE_JSON)

\* the declaration the manifest of `dir` holds, where one can be read
DeclaredAt(dir) ==
    IF /\ ManifestPath(dir) \in DOMAIN tree
       /\ dir \in DOMAIN disk.manifests
       /\ disk.manifests[dir].readable
       /\ ~disk.manifests[dir].text.malformed
    THEN disk.manifests[dir].text.stringified
    ELSE None

\* the manifest of `dir` declares a non-empty list of member globs
DeclaresMembers(dir) ==
    /\ DeclaredAt(dir) # None
    /\ DeclaredAt(dir)[1].workspaces # None
    /\ DeclaredAt(dir)[1].workspaces[1] # <<>>

\* dir, its parent, ..., the root of the file system
RECURSIVE Chain(_)
Chain(dir) == IF dir = <<>> THEN <<dir>> ELSE <<dir>> \o Chain(parentOf(dir))

IsWalkLoad(load) == load.stage = "walk"

Walked == SelectSeq(discovery.loads, IsWalkLoad)

WalkEnded == discovery.phase \in { "globs", "done" }

(***************************************************************************)
(* C22: every discoverModule(dir) call returns null exactly when reading   *)
(* the manifest of dir fails because it does not exist (ENOENT), returns   *)
(* the module with baseDir = dir and the parsed declaration when the       *)
(* manifest is read and parses, throws an error whose cause is the parse   *)
(* failure when it is read and does not parse, and throws the read error   *)
(* itself for every other read error.                                      *)
(***************************************************************************)
C22_DiscoverModuleOutcomes ==
    \A i \in DOMAIN discovery.loads :
        LET load == discovery.loads[i]
            read == readFile(tree, disk, ManifestPath(load.dir))
            missing == read.error # None /\ read.error[1].code = Some(ENOENT)
        IN  /\ load.outcome = ModuleReturned(None) <=> missing
            /\ (read.error = None /\ ~read.json[1].malformed)
                 => load.outcome
                      = ModuleReturned(Some([ baseDir |-> load.dir,
                                              declaration |-> read.json[1].stringified[1] ]))
            /\ (read.error = None /\ read.json[1].malformed)
                 => /\ load.outcome.thrown # None
                    /\ load.outcome.value = None
                    /\ load.outcome.thrown[1].cause = Some(SyntaxError)
            /\ (read.error # None /\ ~missing)
                 => load.outcome = ModuleThrew(read.error[1])

C22_Witness ==
    /\ \E i \in DOMAIN discovery.loads :
         /\ discovery.loads[i].outcome.thrown # None
         /\ discovery.loads[i].outcome.thrown[1].code = None
    /\ \E i \in DOMAIN discovery.loads :
         /\ discovery.loads[i].outcome.thrown # None
         /\ discovery.loads[i].outcome.thrown[1].code # None
    /\ \E i \in DOMAIN discovery.loads : discovery.loads[i].outcome.value # None

(***************************************************************************)
(* C23: a workspace discoverWorkspace returns has as root the module of    *)
(* the first directory, in the order cwd, parent, grandparent, ..., whose  *)
(* manifest declares a non-empty member-glob list; and the upward walk     *)
(* does not end at a directory whose manifest is absent or declares no     *)
(* list or an empty list, unless that directory is the root of the file    *)
(* system or the depth limit is reached.                                   *)
(***************************************************************************)
C23_RootIsFirstDeclaring ==
    LET chain == Chain(startOf(discoverOptions))
    IN  /\ (discovery.outcome # None /\ discovery.outcome[1].value # None)
             => \E i \in DOMAIN chain :
                  /\ DeclaresMembers(chain[i])
                  /\ \A j \in 1..(i - 1) : ~DeclaresMembers(chain[j])
                  /\ discovery.outcome[1].value[1].root
                       = [ baseDir |-> chain[i], declaration |-> DeclaredAt(chain[i])[1] ]
        /\ (WalkEnded /\ Walked # <<>>)
             => LET last == Walked[Len(Walked)]
                IN  (last.outcome.thrown = None /\ ~DeclaresMembers(last.dir))
                    => \/ last.dir = <<>>
                       \/ Len(Walked) = maxDepthOf(discoverOptions)

(***************************************************************************)
(* C24: the upward walk loads at most max(1, maxDepth) directories, which  *)
(* are cwd and its nearest ancestors in order, none above the root of the  *)
(* file system; and when every load returns and no loaded directory        *)
(* declares a non-empty member-glob list, discoverWorkspace returns null.  *)
(***************************************************************************)
C24_WalkBoundedAndNull ==
    LET chain == Chain(startOf(discoverOptions))
    IN  /\ Len(Walked) <= maxDepthOf(discoverOptions)
        /\ Len(Walked) <= Len(chain)
        /\ \A i \in DOMAIN Walked : Walked[i].dir = chain[i]
        /\ ( /\ discovery.phase = "done"
             /\ \A i \in DOMAIN Walked :
                  Walked[i].outcome.thrown = None /\ ~DeclaresMembers(Walked[i].dir) )
           => discovery.outcome = Some(DiscoveryResolved(None))

(***************************************************************************)
(* C25: once the globs of the found root are resolved and their paths      *)
(* loaded, the paths are those the globs resolve to from the root's        *)
(* directory; a path at which no manifest exists, directory or regular     *)
(* file, is dropped; and unless the manifest of some path exists and       *)
(* cannot be read or parsed, discoverWorkspace returns the root with, in   *)
(* the order of the paths, the modules of the paths that have a manifest.  *)
(***************************************************************************)
MembersLoaded ==
    /\ discovery.phase = "done"
    /\ hasWorkspaces(discovery.root)
    /\ promise.state = "none"

ResolvedFrom(dir, globs) ==
    UNION { Satisfying(tree, parseGlob(globs[g]).glob, 1, {dir}) : g \in DOMAIN globs }

RECURSIVE ModulesAt(_)
ModulesAt(paths) ==
    IF paths = <<>>
    THEN <<>>
    ELSE ( IF DeclaredAt(Head(paths)) # None
           THEN <<[ baseDir |-> Head(paths), declaration |-> DeclaredAt(Head(paths))[1] ]>>
           ELSE <<>> )
         \o ModulesAt(Tail(paths))

C25_MembersAreLoadedPaths ==
    MembersLoaded
    => LET root == discovery.root[1]
           paths == discovery.paths
       IN  /\ Range(paths) = ResolvedFrom(root.baseDir, root.declaration.workspaces[1])
           /\ IF \A i \in DOMAIN paths :
                    \/ ManifestPath(paths[i]) \notin DOMAIN tree
                    \/ DeclaredAt(paths[i]) # None
              THEN discovery.outcome
                     = Some(DiscoveryResolved(Some([ root |-> root,
                                                     modules |-> ModulesAt(paths) ])))
              ELSE discovery.outcome # None /\ discovery.outcome[1].rejected # None

(***************************************************************************)
(* C26: a getModuleOrNull call returns the root when the root has the      *)
(* name, otherwise the member of least index with the name, otherwise      *)
(* null; a getModule call returns what getModuleOrNull returns when that   *)
(* is a module and throws the not-found error exactly when it is null;     *)
(* neither call changes the workspace.                                     *)
(***************************************************************************)
\* the module the claim names: the root, else the first member of the name
Named(ws, moduleName) ==
    IF ws.root.declaration.name = moduleName
    THEN Some(ws.root)
    ELSE LET hits == { i \in DOMAIN ws.modules :
                         ws.modules[i].declaration.name = moduleName }
         IN  IF hits = {}
             THEN None
             ELSE Some(ws.modules[CHOOSE i \in hits : \A j \in hits : i <= j])

C26_LookupByName ==
    [][ call'.fn \in { "getModuleOrNull", "getModule" }
        => LET named == Named(workspace, call'.moduleName)
           IN  /\ workspace' = workspace
               /\ call'.fn = "getModuleOrNull" => result' = ModuleReturned(named)
               /\ call'.fn = "getModule"
                    => /\ named = getModuleOrNull(workspace, call'.moduleName)
                       /\ named # None => result' = ModuleReturned(named)
                       /\ named = None <=> result'.thrown # None
                       /\ named = None => result'.thrown[1].message = NoModuleError ]_vars

C26_Witness ==
    /\ call.fn = "getModule"
    /\ result.thrown = None
    /\ \E i, j \in DOMAIN workspace.modules :
         /\ i < j
         /\ workspace.modules[i].declaration.name = call.moduleName
         /\ workspace.modules[j].declaration.name = call.moduleName
         /\ workspace.root.declaration.name # call.moduleName
         /\ result.value = Some(workspace.modules[i])
         /\ workspace.modules[i] # workspace.modules[j]

(***************************************************************************)
(* C27: when a pass of matchesPattern pops a state at a `*` that is not    *)
(* the last part, and the part after it is a literal, the states it pushes *)
(* are one state per offset of the remaining input where the literal's     *)
(* first character occurs, and no other; when the part after it is a       *)
(* marker, they are one state per remaining offset.                        *)
(***************************************************************************)
PoppedMatch == matchStack[Len(matchStack)]

PushedMatches == SubSeq(matchStack', Len(matchStack), Len(matchStack'))

PushedOffsets == { PushedMatches[k].offset : k \in DOMAIN PushedMatches }

RemainingOffsets == PoppedMatch.offset .. Len(matchInput) - 1

AtWildMany ==
    /\ matched = None
    /\ PoppedMatch.index + 1 < Len(matchParts)
    /\ matchParts[PoppedMatch.index + 1] = WILD_MANY
    /\ ~(PoppedMatch.index = Len(matchParts) /\ PoppedMatch.offset = Len(matchInput))

C27_PrunedCandidates ==
    [][ AtWildMany
        => LET following == matchParts[PoppedMatch.index + 2]
           IN  /\ \A k \in DOMAIN PushedMatches :
                    PushedMatches[k].index = PoppedMatch.index + 1
               /\ Len(PushedMatches) = Cardinality(PushedOffsets)
               /\ PushedOffsets =
                    IF following = WILD_SINGLE \/ following = WILD_MANY
                    THEN RemainingOffsets
                    ELSE { o \in RemainingOffsets :
                             charCodeAt(matchInput, o) = charCodeAt(following, 0) } ]_vars

(***************************************************************************)
(* C30: every state a pass of matchesPattern pushes has a part index       *)
(* strictly greater than the state it popped, and the call eventually      *)
(* returns: true for a match, false with the stack empty.                  *)
(***************************************************************************)
C30_PushedIndexGrows ==
    [][ matched = None
        => \A k \in DOMAIN PushedMatches :
             PushedMatches[k].index > PoppedMatch.index ]_vars

C30_Returns == <>(matched # None /\ ~matched[1].thrown)

C30_TerminatesByReturn == C30_PushedIndexGrows /\ C30_Returns

(***************************************************************************)
(* C31: matchesPattern is total: no call ends with a throw, and a pass     *)
(* that pops a state in which all parts are consumed while characters of   *)
(* the input remain pushes no state and does not end the call by a match   *)
(* or a failure, whatever the remaining characters are.                    *)
(***************************************************************************)
AtDeadEnd ==
    /\ matched = None
    /\ PoppedMatch.index = Len(matchParts)
    /\ PoppedMatch.offset < Len(matchInput)

C31_TotalAndDeadEnd ==
    [][ /\ matched' # None => ~matched'[1].thrown
        /\ AtDeadEnd
           => /\ matchStack' = SubSeq(matchStack, 1, Len(matchStack) - 1)
              /\ matched' # None => matched' = Some(MatchReturned(FALSE)) ]_vars

(***************************************************************************)
(* C32: the list a resolveGlob call resolves to is a set: no path occurs   *)
(* in it more than once, whatever the pattern, the file tree and the order *)
(* in which the operations complete.                                       *)
(***************************************************************************)
C32_ResolvedPathsDistinct ==
    promise.state = "fulfilled" => NoDuplicates(promise.value)

(***************************************************************************)
(* C33: when a discoverWorkspace call has ended and a manifest it read (on *)
(* the upward walk or at a resolved member path) was present but did not   *)
(* parse, or could not be read for a reason other than not-found, the call *)
(* rejected, returned no workspace, and the rejection is the very error    *)
(* one of those manifests raised: the read error itself, or the error      *)
(* discoverModule makes of a parse failure, carrying it as cause.          *)
(***************************************************************************)
\* `ex` is the error the manifest of `dir` raises
IsFailureOf(ex, dir) ==
    LET read == readFile(tree, disk, ManifestPath(dir))
    IN  IF read.error # None
        THEN read.error[1].code # Some(ENOENT) /\ ex = read.error[1]
        ELSE /\ read.json[1].malformed
             /\ ex = [ code |-> None, message |-> "Could not parse 'package.json' file",
                       path |-> ManifestPath(dir), cause |-> Some(SyntaxError) ]

Fails(dir) ==
    LET read == readFile(tree, disk, ManifestPath(dir))
    IN  IF read.error # None
        THEN read.error[1].code # Some(ENOENT)
        ELSE read.json[1].malformed

C33_ManifestFailureRejectsUnmodified ==
    ( /\ discovery.phase = "done"
      /\ \E i \in DOMAIN discovery.loads : Fails(discovery.loads[i].dir) )
    => /\ discovery.outcome # None
       /\ discovery.outcome[1].value = None
       /\ discovery.outcome[1].rejected # None
       /\ \E i \in DOMAIN discovery.loads :
            IsFailureOf(discovery.outcome[1].rejected[1], discovery.loads[i].dir)

\* a member's manifest cannot be read, another directory's does not parse
C33_Witness ==
    /\ discovery.phase = "done"
    /\ discovery.outcome # None
    /\ discovery.outcome[1].rejected # None
    /\ \E i \in DOMAIN discovery.loads :
         /\ discovery.loads[i].stage = "member"
         /\ Fails(discovery.loads[i].dir)
         /\ IsFailureOf(discovery.outcome[1].rejected[1], discovery.loads[i].dir)

(***************************************************************************)
(* C34: in the graph buildGraph returns, every edge comes from a           *)
(* workspace-linked entry of a map that counts: one of dependencies,       *)
(* devDependencies and peerDependencies when options.dependencyMaps is not *)
(* given (a linked entry of optionalDependencies alone gives no edge), one *)
(* of the listed maps when it is given; and every such entry between       *)
(* non-excluded members gives its edge.                                    *)
(***************************************************************************)
\* u lists v with a "workspace:" specifier in its map `key`
LinkedIn(key, u, v) ==
    LET map == DeclarationOf(workspace, u)[key]
    IN  /\ map # None
        /\ v \in DOMAIN map[1]
        /\ HasLinkPrefix(map[1][v])

CountingMaps ==
    IF call.options.dependencyMaps = None
    THEN { "dependencies", "devDependencies", "peerDependencies" }
    ELSE { call.options.dependencyMaps[1][i] : i \in DOMAIN call.options.dependencyMaps[1] }

C34_OnlySelectedMapsGiveEdges ==
    call.fn = "buildGraph"
    => \A u, v \in DOMAIN graph :
         /\ v \in Range(graph[u].dependencies)
              => \E key \in CountingMaps : LinkedIn(key, u, v)
         /\ ( /\ \E key \in CountingMaps : LinkedIn(key, u, v)
              /\ {u, v} \cap ExcludedNames(call.options) = {} )
              => v \in Range(graph[u].dependencies)

\* no dependencyMaps given, and a linked entry of optionalDependencies alone
C34_Witness ==
    /\ call.fn = "buildGraph"
    /\ call.options.dependencyMaps = None
    /\ \E u, v \in DOMAIN graph :
         /\ LinkedIn("optionalDependencies", u, v)
         /\ {u, v} \cap ExcludedNames(call.options) = {}
         /\ v \notin Range(graph[u].dependencies)

(***************************************************************************)
(* C35: a traversal call throws the no-such-module error, with no node     *)
(* visited, exactly when getModuleOrNull(workspace, moduleName) is null:   *)
(* the root and every member are accepted as origin.                       *)
(***************************************************************************)
C35_ThrowsIffLookupNull ==
    IsTraversal
    => /\ result.status = "no module"
            <=> getModuleOrNull(workspace, call.options.moduleName) = None
       /\ result.status = "no module"
            => \A n \in DOMAIN graph : ~graph[n].visited /\ ~graph[n].visiting

(***************************************************************************)
(* C36: in the graph buildGraph returns no relation list holds a node more *)
(* than once: each dependency and each dependent of a node is listed once, *)
(* also when a module names the same member in several selected maps.      *)
(***************************************************************************)
C36_RelationListsDistinct ==
    call.fn = "buildGraph"
    => \A u \in DOMAIN graph :
         /\ NoDuplicates(graph[u].dependencies)
         /\ NoDuplicates(graph[u].dependents)

(***************************************************************************)
(* What the build claims speak of                                          *)
(***************************************************************************)
\* the loop body of build() is at work on a node
InLoopBody == build.phase \in { "import", "tasks", "bundling" }

CurrentNode == build.order[build.index + 1]

\* something of the processing of node n goes on: the loop body is at work
\* on it, or a task its build config queued still runs
Processing(n) ==
    \/ InLoopBody /\ CurrentNode = n
    \/ n \in BagToSet(build.running)

(***************************************************************************)
(* C37: in a build without --watch the modules of the build order are      *)
(* processed one at a time and in list order: nothing of two modules goes  *)
(* on at once, the nodes begun are a prefix of the build order, and while  *)
(* a module is processed every module it depends on was begun before it    *)
(* and nothing of its processing goes on any more.                         *)
(***************************************************************************)
C37_OneAtATimeInOrder ==
    ~build.isWatching
    => /\ Cardinality({ n \in Range(build.order) : Processing(n) }) <= 1
       /\ build.begun = SubSeq(build.order, 1, Len(build.begun))
       /\ InLoopBody
            => \A d \in Range(graph[CurrentNode].dependencies) :
                 /\ \E i \in 1..build.index : build.order[i] = d
                 /\ ~Processing(d)

(***************************************************************************)
(* C38: when build() has ended, every module for which the import of the   *)
(* build config, a queued task or the bundling of a target failed has the  *)
(* status FAIL, build() did not fail with it, and every module of the      *)
(* build order was processed, those after the failed one included.         *)
(***************************************************************************)
\* the loop's catch block ran for node n, or the last bundle of one of its
\* targets ended with the watcher's ERROR event
Failed(n) ==
    \/ n \in build.caught
    \/ \E i \in DOMAIN build.watchers :
         build.watchers[i].node = n /\ build.watchers[i].last = "ERROR"

C38_FailureConfined ==
    build.phase = "done"
    => \A n \in Range(build.order) :
         Failed(n)
         => /\ build.status[n] = "FAIL"
            /\ build.outcome = Some([ rejected |-> None ])
            /\ build.begun = build.order

(***************************************************************************)
(* C38 (amended): when build() has ended, every module for which the       *)
(* loop's catch block ran (a failure of the import, of a queued task, or,  *)
(* without --watch, of the bundling of a target) has the status FAIL; and  *)
(* whenever a module failed, in the catch block or by a watcher's ERROR    *)
(* event, build() did not fail with it and every module of the build order *)
(* was processed.                                                          *)
(***************************************************************************)
C38_CaughtFailureConfined ==
    build.phase = "done"
    => \A n \in Range(build.order) :
         /\ n \in build.caught => build.status[n] = "FAIL"
         /\ Failed(n)
              => /\ build.outcome = Some([ rejected |-> None ])
                 /\ build.begun = build.order

\* without --watch, a dependency failed and its dependent was bundled after it
C38_Witness ==
    /\ build.phase = "done"
    /\ ~build.isWatching
    /\ \E i, j \in DOMAIN build.order :
         /\ i < j
         /\ build.order[i] \in build.caught
         /\ build.order[i] \in Range(graph[build.order[j]].dependencies)
         /\ build.status[build.order[i]] = "FAIL"
         /\ build.status[build.order[j]] = "PASS"

\* the method call made by this step, if the step is one
Invoked(method) ==
    /\ invocation'.count = invocation.count + 1
    /\ invocation'.method = method

\* a call on a receiver that is not final: a new object is returned, equal to
\* the receiver but for `field`, and no object that existed has changed
CopiedOnWrite(field) ==
    LET this == invocation'.receiver
        returned == invocation'.returned
    IN  /\ returned \notin DOMAIN heap.objects
        /\ returned \in DOMAIN heap'.objects
        /\ \A o \in DOMAIN heap.objects : heap'.objects[o] = heap.objects[o]
        /\ heap'.objects[returned][field] # heap.objects[this][field]
        /\ \A f \in DOMAIN heap.objects[this] \ {field} :
             heap'.objects[returned][f] = heap.objects[this][f]

\* a call on a final receiver: the receiver itself is returned, changed in
\* `field`, and no object is made
UpdatedInPlace(field) ==
    LET this == invocation'.receiver
    IN  /\ invocation'.returned = this
        /\ DOMAIN heap'.objects = DOMAIN heap.objects
        /\ heap'.objects[this][field] # heap.objects[this][field]
        /\ \A o \in DOMAIN heap.objects \ {this} : heap'.objects[o] = heap.objects[o]

\* enable, disable and configure copy a receiver that is not final and update
\* a final one in place
BuildersCopyUntilFinal ==
    \A method \in { "enable", "disable", "configure" } :
        Invoked(method) =>
            LET field == IF method = "configure" THEN "getConfig" ELSE "getEnabled"
            IN  IF heap.objects[invocation'.receiver].isFinal
                THEN UpdatedInPlace(field)
                ELSE CopiedOnWrite(field)

\* C39: enable, disable and configure on an entity that is not final return a
\* new entity and leave the receiver's getEnabled and getConfig as they were,
\* on a final entity they update the receiver in place and return it; and
\* finalize on an entity that is already final returns that same object.
C39_CopyOnWriteUntilFinal ==
    [][ /\ BuildersCopyUntilFinal
        /\ ( Invoked("finalize") /\ heap.objects[invocation'.receiver].isFinal )
             => ( invocation'.returned = invocation'.receiver /\ heap' = heap ) ]_vars

\* C39 as the code has it: as above, but finalize returns the same object for
\* a final entity whose finalize is the one of Entity.ts; the finalize with
\* which a target declaration replaces it returns a new object every time.
C39_CopyOnWriteFinalizeOfEntity ==
    [][ /\ BuildersCopyUntilFinal
        /\ ( Invoked("finalize") /\ heap.objects[invocation'.receiver].isFinal )
             => IF heap.objects[invocation'.receiver].finalize = "Entity.onFinalize"
                THEN invocation'.returned = invocation'.receiver /\ heap' = heap
                ELSE invocation'.returned \notin DOMAIN heap.objects ]_vars

\* an entity was finalized, enabled in place and finalized again: the second
\* finalize returned the receiver
C39_Witness ==
    /\ invocation.method = "finalize"
    /\ invocation.returned = invocation.receiver
    /\ heap.objects[invocation.receiver].isFinal
    /\ heap.objects[invocation.receiver].finalize = "Entity.onFinalize"
    /\ heap.objects[invocation.receiver].getEnabled # <<>>
    /\ Len(heap.objects) = 3

\* the codes a target declaration suppresses, in heap h
suppressedCodes(h, declaration) ==
    h.sets[h.objects[declaration].suppressed[1]]

\* C40: suppress(code) on a target declaration that is not final leaves the
\* suppressed codes of the receiver, and of every declaration derived from
\* the same base, as they were, and returns a new declaration that
\* suppresses the code.
C40_SuppressCopiesOnWrite ==
    [][ ( Invoked("suppress") /\ ~heap.objects[invocation'.receiver].isFinal )
          => /\ \A declaration \in DOMAIN heap.objects :
                  heap.objects[declaration].suppressed # None
                    => suppressedCodes(heap', declaration) = suppressedCodes(heap, declaration)
             /\ invocation'.returned \notin DOMAIN heap.objects
             /\ invocation'.returned \in DOMAIN heap'.objects
             /\ invocation'.argument \in suppressedCodes(heap', invocation'.returned) ]_vars

====
